---- MODULE Spec2Model ----
(***************************************************************************)
(* State-machine model of the hedgie-gateways collector framework:         *)
(*   - BaseCollector run loop, status reporter and stale-data monitor      *)
(*     (src/internal/shared/base_collector.py)                             *)
(*   - TelegramBotManager.send_notification with its alert cooldown cache  *)
(*     (src/internal/telegram/bot_manager.py) reached through              *)
(*     NotificationService (src/internal/telegram/notification_service.py) *)
(*   - the WebSocket retry loop of the Deribit / OKX collectors            *)
(*   - the Binance trade queue, its processor task and stop()              *)
(*   - CollectorOrchestrator.stop (src/cmd/main.py)                        *)
(* Time is in seconds.  asyncio is cooperative: the code between two       *)
(* awaits runs atomically, so an action is one such stretch of code.       *)
(***************************************************************************)
EXTENDS Integers, Sequences, FiniteSets, TLC

VARIABLES
    now,              \* datetime.utcnow(), seconds since the collector was constructed
    running,          \* BaseCollector.running
    stats,            \* BaseCollector.stats
    last_data_time,   \* BaseCollector.last_data_time (NoTime = None)
    error_streak,     \* BaseCollector.error_streak
    main_pc,          \* position of the task that runs init() and start()
    main_timer,       \* seconds left of the run loop's asyncio.sleep
    start_exc,        \* exception propagating out of start(), "none" if there is none
    cycle_result,     \* branch of the try/except the last collection cycle ended in
    status_pc,        \* position of the _status_updater task
    status_timer,     \* seconds left of its asyncio.sleep
    monitor_pc,       \* position of the _data_monitor task
    monitor_timer,    \* seconds left of its asyncio.sleep(300)
    stale_ticks,      \* monitor ticks that found last_data_time older than 10 minutes
    stop_pc,          \* position of the caller of BaseCollector.stop()
    bot_ready,        \* TelegramBotManager.bot and admin_chat_id are both set
    alert_cache,      \* TelegramBotManager.alert_cache: alert key -> time last sent
    sent_messages,    \* calls of bot.send_message: [key, time]
    connected_status, \* collector_statuses[name]['connected'] (False while absent)
    strategy,         \* which _collect_data the collector has: "abstract", "deribit", "okx"
    ws_pc,            \* position inside the WebSocket _collect_data
    retry_count,      \* local retry_count of the WebSocket _collect_data
    ws_delay,         \* seconds of the last reconnect sleep of _collect_data
    websocket_open,   \* self.websocket is set and not closed
    horizon,          \* the clock stops at this time
    stop_event,       \* BinanceCollector._stop_event is set
    trade_queue,      \* BinanceCollector.trade_queue: (trade_data, underlying) items
    unfinished,       \* the queue's count of items put and not yet task_done()
    proc_pc,          \* position of the _process_trade_queue task
    proc_item,        \* the item it has taken and is processing
    stream_pc,        \* position of each _options_websocket_stream task
    reconnect_delay,  \* reconnect_delay of each stream task
    stream_faults,    \* failed connects and lost connections so far
    processed_trade_ids, \* BinanceCollector.processed_trade_ids, per underlying
    trade_table,      \* trade_id of the rows of binance_<underlying>_trades
    db_log,           \* the rows inserted, in the order of their INSERT
    enq_log,          \* the items put on trade_queue, in the order of their put
    orch_pc,          \* position of the caller of CollectorOrchestrator.stop()
    db_closed,        \* db_manager.close() has closed the pool
    max_cache_size,   \* self.max_cache_size of the collector that owns the cache
    last_recorded,    \* per partition, the key the cache was given last (0: none)
    size_before_cleanup, \* per partition, len(cache) when the last eviction test ran
    row_count,        \* rows of a trade table, counted per trade_id
    submissions,      \* times each trade_id was handed to save_trades
    save_exc,         \* what the last save_trades raised, "none" if nothing
    dup_key_error,    \* an INSERT has failed on a duplicate trade_id
    catching_up,      \* collection_status[currency]['catching_up'] of the OHLC collector
    last_timestamp,   \* collection_status[currency]['last_timestamp']
    page_closed_gap,  \* per currency, a saved page had now - max(open_time) < 2 hours
    page_limit,       \* per currency, limit of the last _collect_currency_data
    ohlc_pc,          \* position of the OHLC collector
    ohlc_idx,         \* index in currency_pairs of the currency _collect_data is at
    enabled,          \* collectors whose <name>_enabled flag is set
    collectors,       \* CollectorOrchestrator.collectors
    init_idx,         \* block of _init_collectors that is next
    init_failed,      \* the collector whose init() raised, "none" if none did
    app_pc,           \* position of main()
    col_pc,           \* per collector, position of its life and run loop
    col_running,      \* per collector, self.running
    stop_called,      \* per collector, the orchestrator has called its stop()
    shutdown_pc,      \* position of CollectorOrchestrator.stop
    stop_idx,         \* index in self.collectors of the collector stop() is at
    sink_closed,      \* telegram_manager.stop() has closed the bot session
    gateway_closed,   \* db_manager.close() has closed the pool
    late_io,          \* a collector used the gateway or the sink after its close
    task_error,       \* a run loop has raised while the orchestrator was running
    poll_pc,          \* position of a polling collector
    poll_cycles,      \* cycles the polling collector has begun
    poll_idx,         \* index in currency_pairs of the currency _collect_data is at
    attempted,        \* currencies fetched in the current cycle
    poll_failed,      \* currencies whose pass raised in the current cycle
    failed_at_start,  \* stats['failed_requests'] when the current cycle began
    norm_exchange,    \* the collector the last payload arrived at, "none" before any
    norm_payload,     \* the last payload, field by field
    norm_record,      \* what the normalizer made of it: <<>> or <<record>>
    norm_saved,       \* the record was handed to save_trades
    norm_cached,      \* its trade id was added to processed_trade_ids
    conv_done,        \* an instrument name has been converted
    conv_in,          \* the name given to _convert_instrument_name
    conv_out,         \* the name it returned
    snd_pc,           \* per notifying task: "idle" or "sending" (inside bot.send_message)
    attempts,         \* the calls of send_notification so far, in order
    td_pc,            \* where a strategy's stop() is: "idle", a teardown step, "stopped", "raised"
    td_idx,           \* the currency whose unsubscribe is sent next
    session_open,     \* the aiohttp session exists and is not closed
    td_failed,        \* the teardown steps that raised
    td_log,           \* the teardown failures stop() logged
    heartbeat_task,   \* DeribitCollector.heartbeat_task: "none", "running" or "cancelled"
    conn_no,          \* the connections established so far
    hs_idx,           \* the messages _connect_and_subscribe has sent on this connection
    outbox,           \* everything sent on the current connection, in order
    frame_log,        \* the inbound frames processed on the current connection, in order
    candle_table,     \* per currency, the open_time of the candles in its ohlc table
    last_page,        \* the last run of _collect_currency_data: what it fetched and how it ended
    pages_done        \* the runs of _collect_currency_data so far

coreVars == <<running, stats, last_data_time, error_streak, main_pc, main_timer,
              start_exc, cycle_result, stop_pc>>
taskVars == <<status_pc, status_timer, monitor_pc, monitor_timer, stale_ticks>>
sinkVars == <<bot_ready, alert_cache, sent_messages, connected_status>>
wsVars   == <<strategy, ws_pc, retry_count, ws_delay, websocket_open>>
queueVars == <<stop_event, trade_queue, unfinished, proc_pc, proc_item, stream_pc,
               reconnect_delay, stream_faults, processed_trade_ids, trade_table,
               db_log, enq_log, orch_pc, db_closed>>
cacheVars == <<max_cache_size, last_recorded, size_before_cleanup>>
saveVars  == <<row_count, submissions, save_exc, dup_key_error>>
ohlcVars_but_pc == <<catching_up, last_timestamp, page_closed_gap, page_limit, ohlc_idx>>
ohlcVars  == <<ohlcVars_but_pc, ohlc_pc>>
orchVars  == <<collectors, init_idx, init_failed, app_pc, col_pc, col_running, stop_called,
               shutdown_pc, stop_idx, sink_closed, gateway_closed, late_io, task_error>>
pollVars  == <<poll_pc, poll_cycles, poll_idx, attempted, poll_failed, failed_at_start>>
normVars  == <<norm_exchange, norm_payload, norm_record, norm_saved, norm_cached>>
convVars  == <<conv_done, conv_in, conv_out>>
sndVars   == <<snd_pc, attempts>>
tdVars    == <<td_pc, td_idx, session_open, td_failed, td_log, heartbeat_task>>
connVars  == <<conn_no, hs_idx, outbox, frame_log>>
pageVars  == <<candle_table, last_page, pages_done>>
lateVars  == <<sndVars, tdVars, connVars, pageVars>>
extVars   == <<cacheVars, saveVars, ohlcVars, enabled, orchVars, pollVars, normVars, convVars,
               lateVars>>

(***************************************************************************)
(* Bounds of the model.                                                    *)
(***************************************************************************)
TimeStep    == 60    \* the clock advances in steps of this many seconds
MaxTime     == 900   \* where the clock stops in Spec
MaxTimeStats == 300  \* where the clock stops in SpecStats
MaxTimeWS   == 300   \* where the clock stops in SpecWS
MaxEnqueued == 3     \* items put on the trade queue in one run
MaxStreamFaults == 1 \* failed connects and lost connections in one run
MaxTradeId  == 2     \* trade ids 1 .. MaxTradeId
SmallCacheSize == 5  \* max_cache_size the caches are run with in SpecCache
MaxCacheKey == 6     \* keys 1 .. MaxCacheKey are recorded in SpecCache
MaxBatch    == 2     \* trades in one batch
MaxSaveKey  == 2     \* trade ids 1 .. MaxSaveKey are handed to save_trades
MaxSubmissions == 3  \* times one trade id is handed to save_trades
OhlcStart   == 7320  \* the clock when the OHLC collector is initialised
MaxTimeOhlc == 120   \* seconds the OHLC collector is followed for
MaxEnabled  == 3     \* collectors enabled in the configuration
MaxPollCycles == 2   \* cycles a polling collector is followed for
RequestBatch == 10   \* requests a strategy issues in one stretch of a cycle
MaxRequests == 30    \* cap on stats.total_requests

(***************************************************************************)
(* Program constants.                                                      *)
(***************************************************************************)
collection_interval    == 60     \* COLLECTION_INTERVAL default
alert_cooldown         == 300    \* TELEGRAM_ALERT_COOLDOWN default
status_update_interval == 60
monitor_interval       == 300    \* asyncio.sleep(300) of _data_monitor
stale_after            == 600    \* timedelta(minutes=10)
streak_threshold       == 5      \* error_streak >= 5
rate_min_requests      == 20     \* total_requests > 20
rate_threshold         == 50     \* error_rate > 50
max_retries            == 5      \* of the WebSocket _collect_data
max_retry_sleep        == 30     \* min(retry_count * 2, 30)
max_reconnect_delay    == 60     \* of _options_websocket_stream

NoTime == -1
name   == "collector"

Max(a, b) == IF a >= b THEN a ELSE b
Min(a, b) == IF a <= b THEN a ELSE b

(***************************************************************************)
(* Errors a collection cycle can raise: <<first 100 characters, rest>>.    *)
(* notify_connection_error puts str(error)[:100] in the message.           *)
(***************************************************************************)
Errors == {<<"timeout", "a">>, <<"timeout", "b">>, <<"refused", "a">>}
ErrorHead(e) == e[1]

(***************************************************************************)
(* Messages of NotificationService, as <<text kind, variable part>>, with  *)
(* the level each is sent at.                                              *)
(***************************************************************************)
StartedMsg      == <<"collector_started", "">>
StoppedMsg      == <<"collector_stopped", "">>
RestoredMsg     == <<"connection_restored", "">>
ConnErrorMsg(e) == <<"connection_error", ErrorHead(e)>>
SystemStoppedMsg == <<"system_stopped", "">>
Messages == {StartedMsg, StoppedMsg, RestoredMsg, SystemStoppedMsg}
            \cup {ConnErrorMsg(e) : e \in Errors}

\* alert_key = f"{collector_name}_{level}_{hash(message)}": equal messages give
\* equal keys, and the messages of this model all differ in their hash.
AlertKey(collector, level, message) == <<collector, level, message>>

\* the tasks that notify under one collector name: its run loop and its status updater
NotifyingTasks == {"run_loop", "status_updater"}

AlertKeys == {AlertKey(c, l, m) : c \in {name, ""},
                                  l \in {"success", "warning", "error"}, m \in Messages}

Sink == [cache |-> alert_cache, sent |-> sent_messages]

\* TelegramBotManager.send_notification with the cooldown test left out
send_notification_no_cooldown(sink, ready, message, level, collector, t) ==
    LET key == AlertKey(collector, level, message)
    IN  IF ~ready THEN sink
        ELSE [cache |-> [sink.cache EXCEPT ![key] = t],
              sent  |-> sink.sent \cup {[key |-> key, time |-> t]}]

\* TelegramBotManager.send_notification: the sink after the call at time t
send_notification(sink, ready, message, level, collector, t) ==
    LET key == AlertKey(collector, level, message)
    IN  IF ~ready THEN sink
        ELSE IF sink.cache[key] # NoTime /\ t - sink.cache[key] < alert_cooldown
             THEN sink
             ELSE [cache |-> [sink.cache EXCEPT ![key] = t],
                   sent  |-> sink.sent \cup {[key |-> key, time |-> t]}]

notify_collector_started(sink, ready, collector, t) ==
    send_notification(sink, ready, StartedMsg, "success", collector, t)

notify_collector_stopped(sink, ready, collector, t) ==
    send_notification(sink, ready, StoppedMsg, "warning", collector, t)

notify_connection_error(sink, ready, collector, e, t) ==
    send_notification(sink, ready, ConnErrorMsg(e), "error", collector, t)

\* NotificationService defines neither notify_high_error_rate nor notify_no_data:
\* the attribute lookup raises AttributeError before anything is sent.
NotificationServiceMethods ==
    {"notify_collector_started", "notify_collector_stopped",
     "notify_connection_error", "update_collector_status"}
RaisesAttributeError(method) == method \notin NotificationServiceMethods

SetSink(sink) ==
    /\ alert_cache' = sink.cache
    /\ sent_messages' = sink.sent

(***************************************************************************)
(* Initial state: the collector is constructed, nothing has run.           *)
(***************************************************************************)
InitCore ==
    /\ now = 0
    /\ running = FALSE
    /\ stats = [total_requests |-> 0, successful_requests |-> 0,
                failed_requests |-> 0, total_trades_saved |-> 0]
    /\ last_data_time = NoTime
    /\ error_streak = 0
    /\ main_pc = "created"
    /\ main_timer = 0
    /\ start_exc = "none"
    /\ cycle_result = "none"
    /\ stop_pc = "idle"

InitTasks ==
    /\ status_pc = "none"
    /\ status_timer = 0
    /\ monitor_pc = "none"
    /\ monitor_timer = 0
    /\ stale_ticks = 0

InitSink ==
    /\ bot_ready \in BOOLEAN
    /\ alert_cache = [k \in AlertKeys |-> NoTime]
    /\ sent_messages = {}
    /\ connected_status = FALSE

InitWS ==
    /\ ws_pc = "idle"
    /\ retry_count = 0
    /\ ws_delay = 0
    /\ websocket_open = FALSE

underlying_assets == {"BTC", "ETH"}
NoItem == <<>>

\* BinanceCollector.__init__: self.max_cache_size = 5000
binance_max_cache_size == 5000
\* BybitCollector.__init__: self.max_cache_size = 10000
bybit_max_cache_size == 10000

InitCache ==
    /\ max_cache_size = binance_max_cache_size
    /\ last_recorded = [u \in underlying_assets |-> 0]
    /\ size_before_cleanup = [u \in underlying_assets |-> 0]

InitSave ==
    /\ row_count = [k \in 1 .. MaxSaveKey |-> 0]
    /\ submissions = [k \in 1 .. MaxSaveKey |-> 0]
    /\ save_exc = "none"
    /\ dup_key_error = FALSE

\* OHLCCollector.__init__
currency_pairs == <<"BTC", "ETH">>
live_window == 7200        \* 2 * 60 * 60 * 1000 ms
catching_up_limit == 250
live_limit == 10

InitOhlc ==
    /\ catching_up = [c \in {"BTC", "ETH"} |-> TRUE]
    /\ last_timestamp = [c \in {"BTC", "ETH"} |-> NoTime]
    /\ page_closed_gap = [c \in {"BTC", "ETH"} |-> FALSE]
    /\ page_limit = [c \in {"BTC", "ETH"} |-> 0]
    /\ ohlc_pc = "created"
    /\ ohlc_idx = 1

\* CollectorOrchestrator.__init__ and the start of main()
InitOrchestrator ==
    /\ collectors = <<>>
    /\ init_idx = 1
    /\ init_failed = "none"
    /\ app_pc = "init"
    /\ col_pc = [c \in {"deribit", "okx", "bybit", "binance", "ohlc"} |-> "none"]
    /\ col_running = [c \in {"deribit", "okx", "bybit", "binance", "ohlc"} |-> FALSE]
    /\ stop_called = [c \in {"deribit", "okx", "bybit", "binance", "ohlc"} |-> FALSE]
    /\ shutdown_pc = "idle"
    /\ stop_idx = 1
    /\ sink_closed = FALSE
    /\ gateway_closed = FALSE
    /\ late_io = FALSE
    /\ task_error = FALSE

InitPoll ==
    /\ poll_pc = "created"
    /\ poll_cycles = 0
    /\ poll_idx = 1
    /\ attempted = {}
    /\ poll_failed = {}
    /\ failed_at_start = 0

InitConv ==
    /\ conv_done = FALSE
    /\ conv_in = [tokens |-> 4, currency |-> "BTC", quote |-> "USD", yy |-> 0, mm |-> 0,
                  dd |-> 0, strike |-> "", type |-> ""]
    /\ conv_out = [converted |-> FALSE, currency |-> "", day |-> 0, mon |-> "", year |-> 0,
                   strike |-> "", type |-> ""]

InitNorm ==
    /\ norm_exchange = "none"
    /\ norm_payload = [trade_id |-> "absent", price |-> "absent", size |-> "absent",
                       instrument |-> "absent", ts |-> "absent", iv |-> "absent"]
    /\ norm_record = <<>>
    /\ norm_saved = FALSE
    /\ norm_cached = FALSE

\* no task has notified yet
InitSnd ==
    /\ snd_pc = [t \in NotifyingTasks |-> "idle"]
    /\ attempts = <<>>

\* stop() has not been called
InitTeardown ==
    /\ td_pc = "idle"
    /\ td_idx = 1
    /\ session_open = FALSE
    /\ td_failed = {}
    /\ td_log = {}
    /\ heartbeat_task = "none"

\* no connection yet
InitConn ==
    /\ conn_no = 0
    /\ hs_idx = 0
    /\ outbox = <<>>
    /\ frame_log = <<>>

NoPage == [currency |-> "", before |-> 0, was_catching |-> TRUE, fetched |-> {},
           new_candles |-> {}, insert_failed |-> {}, rate_limited |-> FALSE,
           outcome |-> "none"]

\* empty tables, nothing fetched
InitPage ==
    /\ candle_table = [c \in {"BTC", "ETH"} |-> {}]
    /\ last_page = NoPage
    /\ pages_done = 0

InitLate == InitSnd /\ InitTeardown /\ InitConn /\ InitPage

InitExt ==
    /\ InitCache /\ InitSave /\ InitOhlc /\ enabled = {} /\ InitOrchestrator /\ InitPoll
    /\ InitNorm /\ InitConv /\ InitLate

InitQueue ==
    /\ stop_event = FALSE
    /\ trade_queue = <<>>
    /\ unfinished = 0
    /\ proc_pc = "none"
    /\ proc_item = NoItem
    /\ stream_pc = [u \in underlying_assets |-> "none"]
    /\ reconnect_delay = [u \in underlying_assets |-> 1]
    /\ stream_faults = 0
    /\ processed_trade_ids = [u \in underlying_assets |-> {}]
    /\ trade_table = [u \in underlying_assets |-> {}]
    /\ db_log = <<>>
    /\ enq_log = <<>>
    /\ orch_pc = "idle"
    /\ db_closed = FALSE

Init ==
    /\ InitCore /\ InitTasks /\ InitSink /\ InitWS /\ InitQueue /\ InitExt
    /\ strategy = "abstract"
    /\ horizon = MaxTime


(***************************************************************************)
(* BaseCollector.init: strategy setup, then the "collector started"        *)
(* notification.                                                           *)
(***************************************************************************)
\* BinanceCollector._init_collector: _load_last_trade_ids seeds the cache of each
\* underlying with the trade ids of its table (with nothing when the query
\* fails), then the processor task and one stream task per underlying are created
BinanceInitCollector(loaded) ==
    /\ processed_trade_ids' = [u \in underlying_assets |->
                                  IF loaded THEN trade_table[u] ELSE {}]
    /\ proc_pc' = "wait"
    /\ stream_pc' = [u \in underlying_assets |-> "connecting"]

InitCollector ==
    /\ main_pc = "created"
    /\ main_pc' = "initialized"
    /\ IF strategy = "binance"
       THEN \E loaded \in BOOLEAN : BinanceInitCollector(loaded)
       ELSE UNCHANGED <<processed_trade_ids, proc_pc, stream_pc>>
    /\ SetSink(notify_collector_started(Sink, bot_ready, name, now))
    /\ UNCHANGED <<now, running, stats, last_data_time, error_streak, main_timer,
                   start_exc, cycle_result, stop_pc, taskVars, bot_ready,
                   connected_status, wsVars, horizon, stop_event, trade_queue,
                   unfinished, proc_item, reconnect_delay, stream_faults, trade_table,
                   db_log, enq_log, orch_pc, db_closed, extVars>>

\* task.cancel(): a task that has not finished gets CancelledError at its await
\* after cancel() with no wakeup of its own left to wait for
CancelTask(pc) == IF pc \in {"none", "done"} THEN pc ELSE "cancelling"

\* a strategy's _collect_data is entered: the WebSocket ones start their retry loop
EnterCollect ==
    /\ main_pc' = "collect"
    /\ IF strategy = "abstract"
       THEN UNCHANGED <<ws_pc, retry_count>>
       ELSE ws_pc' = "loop" /\ retry_count' = 0

(***************************************************************************)
(* BaseCollector.start up to the first await: running = True, the two      *)
(* background tasks are created, the loop is entered.                      *)
(***************************************************************************)
Start ==
    /\ main_pc = "initialized"
    /\ running' = TRUE
    /\ status_pc' = "scheduled"
    /\ monitor_pc' = "scheduled"
    /\ EnterCollect
    /\ UNCHANGED <<now, stats, last_data_time, error_streak, main_timer, start_exc,
                   cycle_result, stop_pc, status_timer, monitor_timer, stale_ticks,
                   sinkVars, strategy, ws_delay, websocket_open, horizon, queueVars, extVars>>

(***************************************************************************)
(* The abstract _collect_data hook: a strategy issues requests and counts  *)
(* them as the polling collectors do (total_requests per request, then     *)
(* successful_requests or failed_requests), here RequestBatch at a time of *)
(* which f fail; then it returns or raises.                                *)
(***************************************************************************)
StrategyRequests(f) ==
    /\ main_pc = "collect"
    /\ strategy = "abstract"
    /\ stats.total_requests + RequestBatch <= MaxRequests
    /\ stats' = [stats EXCEPT !.total_requests = @ + RequestBatch,
                              !.failed_requests = @ + f,
                              !.successful_requests = @ + (RequestBatch - f)]
    /\ UNCHANGED <<now, running, last_data_time, error_streak, main_pc, main_timer,
                   start_exc, cycle_result, stop_pc, taskVars, sinkVars, wsVars, horizon, queueVars, extVars>>

\* _collect_data has nothing left to do but return
CycleCanReturn == strategy = "abstract" \/ ws_pc = "exit"

(***************************************************************************)
(* start, success branch: _collect_data returned; last_data_time = now,    *)
(* error_streak = 0, sleep(collection_interval).                           *)
(***************************************************************************)
CollectReturn ==
    /\ main_pc = "collect"
    /\ CycleCanReturn
    /\ last_data_time' = now
    /\ error_streak' = 0
    /\ cycle_result' = "ok"
    /\ main_pc' = "sleep"
    /\ main_timer' = collection_interval
    /\ ws_pc' = IF strategy = "abstract" THEN ws_pc ELSE "idle"
    /\ UNCHANGED <<now, running, stats, start_exc, stop_pc, taskVars, sinkVars,
                   strategy, retry_count, ws_delay, websocket_open, horizon, queueVars, extVars>>

\* _handle_error, second test: total_requests > 20 and error_rate > 50, with
\* error_rate = failed_requests / total_requests * 100
HighErrorRate(st) ==
    /\ st.total_requests > rate_min_requests
    /\ st.failed_requests * 100 > rate_threshold * st.total_requests

(***************************************************************************)
(* start, except branch: _collect_data raised e.  failed_requests and      *)
(* error_streak go up by one, _handle_error runs, then                     *)
(* sleep(collection_interval).  When _handle_error reaches the call of     *)
(* notify_high_error_rate the attribute lookup raises inside the except    *)
(* block: the exception leaves the loop through the finally block, which   *)
(* cancels both background tasks.                                          *)
(***************************************************************************)
CollectRaise(e) ==
    /\ main_pc = "collect"
    /\ strategy = "abstract"
    /\ LET st     == [stats EXCEPT !.failed_requests = @ + 1]
           streak == error_streak + 1
           sink   == IF streak >= streak_threshold
                     THEN notify_connection_error(Sink, bot_ready, name, e, now)
                     ELSE Sink
           raised == HighErrorRate(st) /\ RaisesAttributeError("notify_high_error_rate")
       IN  /\ stats' = st
           /\ error_streak' = streak
           /\ SetSink(sink)
           /\ cycle_result' = "failed"
           /\ IF raised
              THEN /\ start_exc' = "AttributeError"
                   /\ main_pc' = "finally"
                   /\ main_timer' = 0
                   /\ status_pc' = CancelTask(status_pc)
                   /\ monitor_pc' = CancelTask(monitor_pc)
              ELSE /\ start_exc' = start_exc
                   /\ main_pc' = "sleep"
                   /\ main_timer' = collection_interval
                   /\ UNCHANGED <<status_pc, monitor_pc>>
    /\ UNCHANGED <<now, running, last_data_time, stop_pc, status_timer, monitor_timer,
                   stale_ticks, bot_ready, connected_status, wsVars, horizon, queueVars, extVars>>

(***************************************************************************)
(* start: the sleep is over and `while self.running` is tested; the        *)
(* finally block cancels both background tasks when the loop is left.      *)
(***************************************************************************)
MainWake ==
    /\ main_pc = "sleep"
    /\ main_timer = 0
    /\ IF running
       THEN /\ EnterCollect
            /\ UNCHANGED <<status_pc, monitor_pc>>
       ELSE /\ main_pc' = "finally"
            /\ status_pc' = CancelTask(status_pc)
            /\ monitor_pc' = CancelTask(monitor_pc)
            /\ UNCHANGED <<ws_pc, retry_count>>
    /\ UNCHANGED <<now, running, stats, last_data_time, error_streak, main_timer,
                   start_exc, cycle_result, stop_pc, status_timer, monitor_timer,
                   stale_ticks, sinkVars, strategy, ws_delay, websocket_open, horizon, queueVars, extVars>>

\* start, finally block: both awaited tasks have ended; start returns, or the
\* pending exception goes on to the caller
FinallyDone ==
    /\ main_pc = "finally"
    /\ status_pc = "done"
    /\ monitor_pc = "done"
    /\ main_pc' = IF start_exc = "none" THEN "returned" ELSE "raised"
    /\ UNCHANGED <<now, running, stats, last_data_time, error_streak, main_timer,
                   start_exc, cycle_result, stop_pc, taskVars, sinkVars, wsVars, horizon, queueVars, extVars>>

(***************************************************************************)
(* _status_updater: while running, push the statistics (the first push     *)
(* turns 'connected' from False to True, which _check_status_changes       *)
(* reports), then sleep(status_update_interval).                           *)
(***************************************************************************)
StatusStep ==
    /\ \/ status_pc = "scheduled"
       \/ status_pc = "sleep" /\ status_timer = 0
    /\ IF running
       THEN /\ connected_status' = TRUE
            /\ SetSink(IF ~connected_status
                       THEN send_notification(Sink, bot_ready, RestoredMsg, "success", name, now)
                       ELSE Sink)
            /\ status_pc' = "sleep"
            /\ status_timer' = status_update_interval
       ELSE /\ status_pc' = "done"
            /\ status_timer' = 0
            /\ UNCHANGED <<connected_status, alert_cache, sent_messages>>
    /\ UNCHANGED <<now, coreVars, monitor_pc, monitor_timer, stale_ticks, bot_ready, wsVars, horizon, queueVars, extVars>>

\* _status_updater: except asyncio.CancelledError: break
StatusCancelled ==
    /\ status_pc = "cancelling"
    /\ status_pc' = "done"
    /\ status_timer' = 0
    /\ UNCHANGED <<now, coreVars, monitor_pc, monitor_timer, stale_ticks, sinkVars, wsVars, horizon, queueVars, extVars>>

\* _data_monitor: `while self.running` at the start of the task, then sleep(300)
MonitorStart ==
    /\ monitor_pc = "scheduled"
    /\ IF running
       THEN monitor_pc' = "sleep" /\ monitor_timer' = monitor_interval
       ELSE monitor_pc' = "done" /\ monitor_timer' = 0
    /\ UNCHANGED <<now, coreVars, status_pc, status_timer, stale_ticks, sinkVars, wsVars, horizon, queueVars, extVars>>

(***************************************************************************)
(* _data_monitor after sleep(300): when last_data_time is set and older    *)
(* than 10 minutes it calls notify_no_data, whose lookup raises; the       *)
(* except Exception clause logs it.  Then `while self.running` again.      *)
(***************************************************************************)
MonitorTick ==
    /\ monitor_pc = "sleep"
    /\ monitor_timer = 0
    /\ LET stale == last_data_time # NoTime /\ now - last_data_time > stale_after
       IN  /\ stale_ticks' = IF stale THEN stale_ticks + 1 ELSE stale_ticks
           /\ IF stale /\ ~RaisesAttributeError("notify_no_data")
              THEN SetSink(send_notification(Sink, bot_ready,
                               <<"no_data", "">>, "warning", name, now))
              ELSE UNCHANGED <<alert_cache, sent_messages>>
    /\ IF running
       THEN monitor_pc' = "sleep" /\ monitor_timer' = monitor_interval
       ELSE monitor_pc' = "done" /\ monitor_timer' = 0
    /\ UNCHANGED <<now, coreVars, status_pc, status_timer, bot_ready, connected_status,
                   wsVars, horizon, queueVars, extVars>>

\* _data_monitor: except asyncio.CancelledError: break
MonitorCancelled ==
    /\ monitor_pc = "cancelling"
    /\ monitor_pc' = "done"
    /\ monitor_timer' = 0
    /\ UNCHANGED <<now, coreVars, status_pc, status_timer, stale_ticks, sinkVars, wsVars, horizon, queueVars, extVars>>

(***************************************************************************)
(* BaseCollector.stop: running = False, the final statistics are logged    *)
(* and the "collector stopped" notification is sent.  It touches neither   *)
(* background task.  The orchestrator holds a collector, and so can stop   *)
(* it, once its init() has returned.                                       *)
(***************************************************************************)
BaseStop ==
    /\ running' = FALSE
    /\ SetSink(notify_collector_stopped(Sink, bot_ready, name, now))
    /\ stop_pc' = "returned"

StopCall ==
    /\ strategy = "abstract"
    /\ stop_pc = "idle"
    /\ main_pc # "created"
    /\ BaseStop
    /\ UNCHANGED <<now, stats, last_data_time, error_streak, main_pc, main_timer,
                   start_exc, cycle_result, taskVars, bot_ready, connected_status, wsVars, horizon, queueVars, extVars>>

(***************************************************************************)
(* Time passes while every task is blocked (asleep with time left, inside  *)
(* the stream of a WebSocket cycle) or has ended; a task that can run does *)
(* so before the clock moves.  init() is followed by start() at once, and  *)
(* a cycle of the abstract strategy is short against the clock's step.     *)
(***************************************************************************)
Runnable ==
    \/ main_pc \in {"created", "initialized"}
    \/ main_pc = "collect" /\ strategy = "abstract"
    \/ main_pc = "collect" /\ ws_pc \in {"loop", "exit"}
    \/ stop_pc = "closing"
    \/ main_pc = "sleep" /\ main_timer = 0
    \/ main_pc = "finally" /\ status_pc = "done" /\ monitor_pc = "done"
    \/ status_pc \in {"scheduled", "cancelling"}
    \/ status_pc = "sleep" /\ status_timer = 0
    \/ monitor_pc \in {"scheduled", "cancelling"}
    \/ monitor_pc = "sleep" /\ monitor_timer = 0

Tick ==
    /\ ~Runnable
    /\ now + TimeStep <= horizon
    /\ now' = now + TimeStep
    /\ main_timer' = Max(0, main_timer - TimeStep)
    /\ status_timer' = Max(0, status_timer - TimeStep)
    /\ monitor_timer' = Max(0, monitor_timer - TimeStep)
    /\ UNCHANGED <<running, stats, last_data_time, error_streak, main_pc, start_exc,
                   cycle_result, stop_pc, status_pc, monitor_pc, stale_ticks,
                   sinkVars, wsVars, horizon, queueVars, extVars>>

vars == <<now, coreVars, taskVars, sinkVars, wsVars, horizon, queueVars, extVars>>

Next ==
    \/ InitCollector
    \/ Start
    \/ CollectReturn
    \/ \E e \in Errors : CollectRaise(e)
    \/ MainWake
    \/ FinallyDone
    \/ StatusStep
    \/ StatusCancelled
    \/ MonitorStart
    \/ MonitorTick
    \/ MonitorCancelled
    \/ StopCall
    \/ Tick

Spec == Init /\ [][Next]_vars

(***************************************************************************)
(* The same collector with a strategy that counts its requests, over a     *)
(* short stretch of time.                                                  *)
(***************************************************************************)
InitStats ==
    /\ InitCore /\ InitTasks /\ InitSink /\ InitWS /\ InitQueue /\ InitExt
    /\ strategy = "abstract"
    /\ horizon = MaxTimeStats

NextStats ==
    \/ Next
    \/ \E f \in {0, RequestBatch} : StrategyRequests(f)

SpecStats == InitStats /\ [][NextStats]_vars


(***************************************************************************)
(* The WebSocket strategies: _collect_data of the Deribit and OKX          *)
(* collectors, a retry loop around _connect_and_subscribe.                 *)
(***************************************************************************)
WebSocketStrategies == {"deribit", "okx"}

\* `while self.running and retry_count < max_retries`, and after the loop
\* `if retry_count >= max_retries: self.running = False`
WSLoopTest ==
    /\ main_pc = "collect"
    /\ ws_pc = "loop"
    /\ IF running /\ retry_count < max_retries
       THEN /\ ws_pc' = "connecting"
            /\ UNCHANGED running
       ELSE /\ ws_pc' = "exit"
            /\ running' = IF retry_count >= max_retries THEN FALSE ELSE running
    /\ UNCHANGED <<now, stats, last_data_time, error_streak, main_pc, main_timer,
                   start_exc, cycle_result, stop_pc, taskVars, sinkVars, strategy,
                   retry_count, ws_delay, websocket_open, horizon, queueVars, extVars>>

\* the except clauses of _collect_data: retry_count += 1 and
\* sleep(min(retry_count * 2, 30))
WSRetry ==
    /\ retry_count' = retry_count + 1
    /\ ws_delay' = Min((retry_count + 1) * 2, max_retry_sleep)
    /\ ws_pc' = "backoff"

\* websockets.connect, or a send of _connect_and_subscribe, raises
WSConnectFail ==
    /\ main_pc = "collect"
    /\ ws_pc = "connecting"
    /\ WSRetry
    /\ websocket_open' = FALSE
    /\ UNCHANGED <<now, coreVars, taskVars, sinkVars, strategy, horizon, queueVars, extVars>>

\* _connect_and_subscribe: connected and subscribed, the receive loop runs
WSConnected ==
    /\ main_pc = "collect"
    /\ ws_pc = "connecting"
    /\ websocket_open' = TRUE
    /\ ws_pc' = "streaming"
    /\ UNCHANGED <<now, coreVars, taskVars, sinkVars, strategy, retry_count, ws_delay,
                   horizon, queueVars, extVars>>

\* the receive loop raises (ConnectionClosed or the re-raised TimeoutError in the
\* Deribit collector, a failing ping in the OKX one): the socket is closed on the
\* way out and the except clause of _collect_data counts a retry
WSStreamError ==
    /\ main_pc = "collect"
    /\ ws_pc = "streaming"
    /\ WSRetry
    /\ websocket_open' = FALSE
    /\ UNCHANGED <<now, coreVars, taskVars, sinkVars, strategy, horizon, queueVars, extVars>>

\* _connect_and_subscribe returns: `while self.running` is false after a frame,
\* or (OKX only) ConnectionClosed in recv leaves the loop with break; then
\* retry_count = 0
WSStreamEnd ==
    /\ main_pc = "collect"
    /\ ws_pc = "streaming"
    /\ ~running \/ strategy = "okx"
    /\ websocket_open' = FALSE
    /\ retry_count' = 0
    /\ ws_pc' = "loop"
    /\ UNCHANGED <<now, coreVars, taskVars, sinkVars, strategy, ws_delay, horizon, queueVars, extVars>>

\* the reconnect sleep is over
WSBackoffDone ==
    /\ main_pc = "collect"
    /\ ws_pc = "backoff"
    /\ ws_pc' = "loop"
    /\ UNCHANGED <<now, coreVars, taskVars, sinkVars, strategy, retry_count, ws_delay,
                   websocket_open, horizon, queueVars, extVars>>

\* DeribitCollector.stop / OKXCollector.stop, first part: the socket (and the
\* HTTP session) is closed; running is still as it was
WSStopClose ==
    /\ strategy \in WebSocketStrategies
    /\ stop_pc = "idle"
    /\ main_pc # "created"
    /\ stop_pc' = "closing"
    /\ websocket_open' = FALSE
    /\ UNCHANGED <<now, running, stats, last_data_time, error_streak, main_pc,
                   main_timer, start_exc, cycle_result, taskVars, sinkVars, strategy,
                   ws_pc, retry_count, ws_delay, horizon, queueVars, extVars>>

\* ... second part: await super().stop()
WSStopSuper ==
    /\ stop_pc = "closing"
    /\ BaseStop
    /\ UNCHANGED <<now, stats, last_data_time, error_streak, main_pc, main_timer,
                   start_exc, cycle_result, taskVars, bot_ready, connected_status,
                   wsVars, horizon, queueVars, extVars>>

InitWSSpec ==
    /\ InitCore /\ InitTasks /\ InitSink /\ InitWS /\ InitQueue /\ InitExt
    /\ strategy \in WebSocketStrategies
    /\ horizon = MaxTimeWS

NextWS ==
    \/ InitCollector
    \/ Start
    \/ WSLoopTest
    \/ WSConnectFail
    \/ WSConnected
    \/ WSStreamError
    \/ WSStreamEnd
    \/ WSBackoffDone
    \/ CollectReturn
    \/ MainWake
    \/ FinallyDone
    \/ StatusStep
    \/ StatusCancelled
    \/ MonitorStart
    \/ MonitorTick
    \/ MonitorCancelled
    \/ WSStopClose
    \/ WSStopSuper
    \/ Tick

SpecWS == InitWSSpec /\ [][NextWS]_vars

(***************************************************************************)
(* The dedup caches: processed_trade_ids of the Binance and the Bybit      *)
(* collector, a Python set per partition.  Eviction takes list(cache) and  *)
(* discards its first `excess` elements; the order of list(set) is the     *)
(* order of the hash table, which for string keys changes with the hash    *)
(* seed of the process and has nothing to do with the order of insertion:  *)
(* any `excess` elements can be the ones discarded.                        *)
(***************************************************************************)
CacheKeys == 1 .. MaxCacheKey

\* the sets of n elements list(cache)[:n] can be
EvictionChoices(cache, n) == {ev \in SUBSET cache : Cardinality(ev) = n}

\* int(self.max_cache_size * 0.8)
KeptAfterCleanup(cap) == (cap * 8) \div 10

\* BinanceCollector._cleanup_cache: the caches it can leave
_cleanup_cache(cache, cap) ==
    IF Cardinality(cache) > cap
    THEN {cache \ ev : ev \in EvictionChoices(cache, Cardinality(cache) - KeptAfterCleanup(cap))}
    ELSE {cache}

\* BybitCollector._update_cache: the caches it can leave, given the trade ids of
\* processed_trades
_update_cache(cache, cap, trade_ids) ==
    LET added == cache \cup trade_ids
    IN  IF Cardinality(added) > cap
        THEN {added \ ev : ev \in EvictionChoices(added, Cardinality(added) - cap)}
        ELSE {added}

(***************************************************************************)
(* The Binance collector: stream tasks put trades on trade_queue, one      *)
(* processor task takes them off and persists them.                        *)
(***************************************************************************)
TradeIds == 1 .. MaxTradeId

\* trade_data of a trade message, by its 't'.  0 stands for the payloads that
\* _process_single_trade returns on without a word: 't' missing, empty or 0, or
\* symbol, price or quantity missing or unparsable
Payloads == [t : {0} \cup TradeIds]

\* the four checks at the head of _process_single_trade
Complete(payload) == payload.t # 0

coreQueueUnchanged ==
    UNCHANGED <<now, running, last_data_time, error_streak, main_pc, main_timer,
                start_exc, cycle_result, taskVars, sinkVars, wsVars, horizon, extVars>>

\* _options_websocket_stream after an attempt: sleep(reconnect_delay) unless the
\* stop event is set, in which case `while not self._stop_event.is_set()` ends
\* the task
StreamAfterAttempt(u) ==
    stream_pc' = [stream_pc EXCEPT ![u] = IF stop_event THEN "done" ELSE "backoff"]

\* websockets.connect succeeded: reconnect_delay = 1, the stream is read
StreamConnected(u) ==
    /\ stream_pc[u] = "connecting"
    /\ stream_pc' = [stream_pc EXCEPT ![u] = "streaming"]
    /\ reconnect_delay' = [reconnect_delay EXCEPT ![u] = 1]
    /\ coreQueueUnchanged
    /\ UNCHANGED <<stats, stop_pc, stop_event, trade_queue, unfinished, proc_pc,
                   proc_item, stream_faults, processed_trade_ids, trade_table, db_log,
                   enq_log, orch_pc, db_closed>>

\* websockets.connect raised
StreamConnectFail(u) ==
    /\ stream_pc[u] = "connecting"
    /\ stream_faults < MaxStreamFaults
    /\ stream_faults' = stream_faults + 1
    /\ StreamAfterAttempt(u)
    /\ coreQueueUnchanged
    /\ UNCHANGED <<stats, stop_pc, stop_event, trade_queue, unfinished, proc_pc,
                   proc_item, reconnect_delay, processed_trade_ids, trade_table,
                   db_log, enq_log, orch_pc, db_closed>>

\* a trade message arrives: with the stop event set the stream is left, else
\* _handle_options_message puts (trade_data, underlying) on the queue
StreamMessage(u, payload) ==
    /\ stream_pc[u] = "streaming"
    /\ IF stop_event
       THEN /\ StreamAfterAttempt(u)
            /\ UNCHANGED <<trade_queue, unfinished, enq_log>>
       ELSE /\ Len(enq_log) < MaxEnqueued
            /\ trade_queue' = Append(trade_queue, <<payload, u>>)
            /\ unfinished' = unfinished + 1
            /\ enq_log' = Append(enq_log, <<payload, u>>)
            /\ UNCHANGED stream_pc
    /\ coreQueueUnchanged
    /\ UNCHANGED <<stats, stop_pc, stop_event, proc_pc, proc_item, reconnect_delay,
                   stream_faults, processed_trade_ids, trade_table, db_log, orch_pc,
                   db_closed>>

\* the connection is lost or closed while the stream is read
StreamClosed(u) ==
    /\ stream_pc[u] = "streaming"
    /\ stream_faults < MaxStreamFaults
    /\ stream_faults' = stream_faults + 1
    /\ StreamAfterAttempt(u)
    /\ coreQueueUnchanged
    /\ UNCHANGED <<stats, stop_pc, stop_event, trade_queue, unfinished, proc_pc,
                   proc_item, reconnect_delay, processed_trade_ids, trade_table,
                   db_log, enq_log, orch_pc, db_closed>>

\* the reconnect sleep is over: reconnect_delay = min(reconnect_delay * 2, 60),
\* then `while not self._stop_event.is_set()`
StreamBackoffDone(u) ==
    /\ stream_pc[u] = "backoff"
    /\ reconnect_delay' = [reconnect_delay EXCEPT
                              ![u] = Min(@ * 2, max_reconnect_delay)]
    /\ stream_pc' = [stream_pc EXCEPT ![u] = IF stop_event THEN "done" ELSE "connecting"]
    /\ coreQueueUnchanged
    /\ UNCHANGED <<stats, stop_pc, stop_event, trade_queue, unfinished, proc_pc,
                   proc_item, stream_faults, processed_trade_ids, trade_table, db_log,
                   enq_log, orch_pc, db_closed>>

\* asyncio.Queue.get with the items taken from the other end
QueueGetNewest(queue) ==
    [item |-> queue[Len(queue)], rest |-> SubSeq(queue, 1, Len(queue) - 1)]

\* asyncio.Queue.get: the oldest item and the queue without it
QueueGet(queue) ==
    [item |-> Head(queue), rest |-> Tail(queue)]

\* _process_trade_queue: wait_for(trade_queue.get()) hands over an item
ProcessorGet ==
    /\ proc_pc = "wait"
    /\ trade_queue # <<>>
    /\ proc_item' = QueueGet(trade_queue).item
    /\ trade_queue' = QueueGet(trade_queue).rest
    /\ proc_pc' = "processing"
    /\ coreQueueUnchanged
    /\ UNCHANGED <<stats, stop_pc, stop_event, unfinished, stream_pc, reconnect_delay,
                   stream_faults, processed_trade_ids, trade_table, db_log, enq_log,
                   orch_pc, db_closed>>

(***************************************************************************)
(* _process_single_trade on the item taken, then trade_queue.task_done().  *)
(* An incomplete payload and a trade id found in the cache are dropped.    *)
(* Else save_trades: a row with the trade id is left alone, a new one is   *)
(* inserted; then the id goes into the cache and successful_requests       *)
(* counts.  When the database raises (db_ok false), or when the inserted   *)
(* trade has an amount over 100000 and _check_large_trade calls the        *)
(* missing notify_large_trade, save_trades calls the missing               *)
(* notify_database_error and the AttributeError is caught here:            *)
(* failed_requests counts, the cache and total_trades_saved stay.          *)
(***************************************************************************)
ProcessorFinish(db_ok, large) ==
    /\ proc_pc = "processing"
    /\ LET payload == proc_item[1]
           u       == proc_item[2]
           skip    == ~Complete(payload) \/ payload.t \in processed_trade_ids[u]
           insert  == ~skip /\ db_ok /\ payload.t \notin trade_table[u]
           raised  == ~skip /\ (~db_ok \/ (insert /\ large))
       IN  /\ skip => db_ok
           /\ ~insert => ~large
           /\ trade_table' = IF insert
                             THEN [trade_table EXCEPT ![u] = @ \cup {payload.t}]
                             ELSE trade_table
           /\ db_log' = IF insert THEN Append(db_log, <<u, payload.t>>) ELSE db_log
           /\ IF ~skip /\ ~raised
              THEN \E cache \in _cleanup_cache(processed_trade_ids[u] \cup {payload.t},
                                                max_cache_size) :
                       processed_trade_ids' = [processed_trade_ids EXCEPT ![u] = cache]
              ELSE UNCHANGED processed_trade_ids
           /\ stats' = IF skip THEN stats
                       ELSE IF raised
                            THEN [stats EXCEPT !.failed_requests = @ + 1]
                            ELSE [stats EXCEPT
                                     !.total_trades_saved = @ + (IF insert THEN 1 ELSE 0),
                                     !.successful_requests = @ + 1]
    /\ unfinished' = unfinished - 1
    /\ proc_item' = NoItem
    /\ proc_pc' = "wait"
    /\ coreQueueUnchanged
    /\ UNCHANGED <<stop_pc, stop_event, trade_queue, stream_pc, reconnect_delay,
                   stream_faults, enq_log, orch_pc, db_closed>>

\* the cancelled processor task ends at the await it was suspended in.  An item it
\* had taken stays taken and never gets its task_done(); its INSERT has reached
\* the database (inserted) or has not
ProcessorCancelled(inserted) ==
    /\ proc_pc = "cancelling"
    /\ proc_pc' = "cancelled"
    /\ IF inserted
       THEN /\ proc_item # NoItem
            /\ Complete(proc_item[1])
            /\ proc_item[1].t \notin processed_trade_ids[proc_item[2]]
            /\ proc_item[1].t \notin trade_table[proc_item[2]]
            /\ trade_table' = [trade_table EXCEPT ![proc_item[2]] = @ \cup {proc_item[1].t}]
            /\ db_log' = Append(db_log, <<proc_item[2], proc_item[1].t>>)
       ELSE UNCHANGED <<trade_table, db_log>>
    /\ coreQueueUnchanged
    /\ UNCHANGED <<stats, stop_pc, stop_event, trade_queue, unfinished, proc_item,
                   stream_pc, reconnect_delay, stream_faults, processed_trade_ids,
                   enq_log, orch_pc, db_closed>>

\* BinanceCollector.stop up to its first await: the stop event is set and the
\* processor task is cancelled
BinanceStopBegin ==
    /\ stop_pc = "idle"
    /\ stop_event' = TRUE
    /\ proc_pc' = IF proc_pc \in {"wait", "processing"} THEN "cancelling" ELSE proc_pc
    /\ stop_pc' = "await_processor"

\* CollectorOrchestrator.stop: running = False, then collector.stop() of each
\* collector in turn
OrchestratorStop ==
    /\ strategy = "binance"
    /\ orch_pc = "idle"
    /\ main_pc # "created"
    /\ orch_pc' = "stopping"
    /\ BinanceStopBegin
    /\ coreQueueUnchanged
    /\ UNCHANGED <<stats, trade_queue, unfinished, proc_item, stream_pc,
                   reconnect_delay, stream_faults, processed_trade_ids, trade_table,
                   db_log, enq_log, db_closed>>

\* BinanceCollector.stop: the processor task has ended;
\* `if not self.trade_queue.empty(): await self.trade_queue.join()`
BinanceStopAfterProcessor ==
    /\ stop_pc = "await_processor"
    /\ proc_pc = "cancelled"
    /\ stop_pc' = IF trade_queue # <<>> THEN "join" ELSE "gather"
    /\ coreQueueUnchanged
    /\ UNCHANGED <<stats, queueVars>>

\* BinanceCollector.stop goes on from an await: join() returns once no item is
\* unfinished; gather(*ws_tasks) returns once every stream task has ended, and
\* super().stop() follows
BinanceStopResume ==
    /\ stop_pc \in {"join", "gather"}
    /\ IF stop_pc = "join"
       THEN /\ unfinished = 0
            /\ stop_pc' = "gather"
            /\ UNCHANGED <<running, alert_cache, sent_messages>>
       ELSE /\ \A u \in underlying_assets : stream_pc[u] = "done"
            /\ BaseStop
    /\ UNCHANGED <<now, stats, last_data_time, error_streak, main_pc, main_timer,
                   start_exc, cycle_result, taskVars, bot_ready, connected_status,
                   wsVars, horizon, queueVars, extVars>>

\* CollectorOrchestrator.stop after the collectors: telegram_manager.stop() sends
\* its notification, db_manager.close() closes the pool and returns None, and
\* `await` of that None raises TypeError
OrchestratorClose ==
    /\ orch_pc = "stopping"
    /\ stop_pc = "returned"
    /\ SetSink(send_notification(Sink, bot_ready, SystemStoppedMsg, "warning", "", now))
    /\ db_closed' = TRUE
    /\ orch_pc' = "raised"
    /\ UNCHANGED <<now, coreVars, taskVars, bot_ready, connected_status, wsVars, horizon,
                   stop_event, trade_queue, unfinished, proc_pc, proc_item, stream_pc,
                   reconnect_delay, stream_faults, processed_trade_ids, trade_table,
                   db_log, enq_log, extVars>>

InitQueueSpec ==
    /\ InitCore /\ InitTasks /\ InitSink /\ InitWS /\ InitQueue /\ InitExt
    /\ bot_ready
    /\ strategy = "binance"
    /\ horizon = 0

StreamStep ==
    \E u \in underlying_assets :
        \/ StreamConnected(u)
        \/ StreamConnectFail(u)
        \/ StreamClosed(u)
        \/ StreamBackoffDone(u)

NextQueue ==
    \/ InitCollector
    \/ StreamStep
    \/ \E u \in underlying_assets, payload \in Payloads : StreamMessage(u, payload)
    \/ ProcessorGet
    \/ \E db_ok, large \in BOOLEAN : ProcessorFinish(db_ok, large)
    \/ \E inserted \in BOOLEAN : ProcessorCancelled(inserted)
    \/ OrchestratorStop
    \/ BinanceStopAfterProcessor
    \/ BinanceStopResume
    \/ OrchestratorClose

SpecQueue == InitQueueSpec /\ [][NextQueue]_vars

(***************************************************************************)
(* The scheduler runs every task that can take a step, a connect attempt   *)
(* ends one way or the other, and a connected socket delivers its next     *)
(* message in the end (the exchange keeps trading).                        *)
(***************************************************************************)
FairSpecQueue ==
    /\ SpecQueue
    /\ WF_vars(InitCollector)
    /\ WF_vars(ProcessorGet)
    /\ WF_vars(\E db_ok, large \in BOOLEAN : ProcessorFinish(db_ok, large))
    /\ WF_vars(\E inserted \in BOOLEAN : ProcessorCancelled(inserted))
    /\ WF_vars(BinanceStopAfterProcessor)
    /\ WF_vars(BinanceStopResume)
    /\ WF_vars(OrchestratorClose)
    /\ \A u \in underlying_assets :
           /\ WF_vars(StreamConnected(u) \/ StreamConnectFail(u))
           /\ WF_vars(StreamBackoffDone(u))
           /\ WF_vars(\E payload \in Payloads : StreamMessage(u, payload))

\* the records of the dedup caches as operations of their own
cacheUnchanged ==
    UNCHANGED <<now, coreVars, taskVars, sinkVars, wsVars, horizon, stop_event, trade_queue,
                unfinished, proc_pc, proc_item, stream_pc, reconnect_delay, stream_faults,
                trade_table, db_log, enq_log, orch_pc, db_closed, max_cache_size, saveVars, ohlcVars, enabled, orchVars, pollVars, normVars, convVars, lateVars>>

\* _process_single_trade after save_trades: the trade id is added to the cache of
\* its underlying and _cleanup_cache runs
BinanceRecord(u, key) ==
    /\ strategy = "binance"
    /\ \E cache \in _cleanup_cache(processed_trade_ids[u] \cup {key}, max_cache_size) :
           processed_trade_ids' = [processed_trade_ids EXCEPT ![u] = cache]
    /\ last_recorded' = [last_recorded EXCEPT ![u] = key]
    /\ size_before_cleanup' = [size_before_cleanup EXCEPT
                                  ![u] = Cardinality(processed_trade_ids[u] \cup {key})]
    /\ cacheUnchanged

\* BybitCollector._collect_data after save_trades: _update_cache with the trades
\* of the cycle, of which `last` is the last one
BybitRecord(c, trade_ids, last) ==
    /\ strategy = "bybit"
    /\ last \in trade_ids
    /\ \E cache \in _update_cache(processed_trade_ids[c], max_cache_size, trade_ids) :
           processed_trade_ids' = [processed_trade_ids EXCEPT ![c] = cache]
    /\ last_recorded' = [last_recorded EXCEPT ![c] = last]
    /\ size_before_cleanup' = [size_before_cleanup EXCEPT
                                  ![c] = Cardinality(processed_trade_ids[c] \cup trade_ids)]
    /\ cacheUnchanged

\* the batches of new trades one Bybit cycle saves
Batches == {b \in SUBSET CacheKeys : Cardinality(b) \in 1 .. MaxBatch}

InitCacheSpec ==
    /\ InitCore /\ InitTasks /\ InitSink /\ InitWS /\ InitQueue
    /\ bot_ready
    /\ strategy \in {"binance", "bybit"}
    /\ horizon = 0
    /\ max_cache_size = SmallCacheSize
    /\ last_recorded = [u \in underlying_assets |-> 0]
    /\ size_before_cleanup = [u \in underlying_assets |-> 0]
    /\ InitSave /\ InitOhlc /\ enabled = {} /\ InitOrchestrator /\ InitPoll /\ InitNorm
    /\ InitConv /\ InitLate

NextCache ==
    \/ \E u \in underlying_assets, key \in CacheKeys : BinanceRecord(u, key)
    \/ \E c \in underlying_assets, trade_ids \in Batches :
           \E last \in trade_ids : BybitRecord(c, trade_ids, last)

SpecCache == InitCacheSpec /\ [][NextCache]_vars

(***************************************************************************)
(* BaseCollector.save_trades on one trade table.  trade_id is the primary  *)
(* key of a trade table (src/internal/okx.py creates okx_<currency>_trades *)
(* with `trade_id text PRIMARY KEY`), so a plain INSERT of a trade_id the  *)
(* table holds raises a unique violation.  _insert_trade_async is the      *)
(* OKX collector's plain INSERT, the Binance collector's INSERT ... ON     *)
(* CONFLICT (trade_id) DO NOTHING, or, for the collectors that define only *)
(* _insert_trade (Deribit, Bybit), the `pass` of BaseCollector.            *)
(***************************************************************************)
SaveKeys == 1 .. MaxSaveKey
SavingStrategies == {"okx", "binance", "bybit"}

\* a trade of a batch: its trade_id, and whether its amount is over 100000
SaveTradesOf == [trade_id : SaveKeys, large : BOOLEAN]
SaveBatches ==
    UNION {[1 .. n -> SaveTradesOf] : n \in 1 .. MaxBatch}

\* `existing`, with no row ever found
ExistingNever(rows, trade_id) == FALSE

\* existing = await conn.fetchval("SELECT 1 FROM ... WHERE trade_id = $1 LIMIT 1")
Existing(rows, trade_id) == rows[trade_id] > 0

\* _insert_trade_async of the collector: the rows after it and whether the
\* statement raised a unique violation
_insert_trade_async(rows, trade_id, collector) ==
    IF collector = "bybit"
    THEN [rows |-> rows, violation |-> FALSE]
    ELSE IF rows[trade_id] > 0
         THEN [rows |-> rows, violation |-> collector = "okx"]
         ELSE [rows |-> [rows EXCEPT ![trade_id] = @ + 1], violation |-> FALSE]

(***************************************************************************)
(* The loop of save_trades from trade i of the batch on.  db_fail is the   *)
(* position of the trade at whose query the database raises (0: nowhere).  *)
(* Any exception ends the batch: the except clause calls the missing       *)
(* notify_database_error, so what save_trades raises is AttributeError.    *)
(* A stored trade with amount > 100000 ends it as well, by the missing     *)
(* notify_large_trade of _check_large_trade.                               *)
(***************************************************************************)
RECURSIVE SaveLoop(_, _, _, _, _)
SaveLoop(st, batch, i, db_fail, collector) ==
    IF i > Len(batch)
    THEN st
    ELSE IF i = db_fail
    THEN [st EXCEPT !.exc = "AttributeError"]
    ELSE IF Existing(st.rows, batch[i].trade_id)
    THEN SaveLoop(st, batch, i + 1, db_fail, collector)
    ELSE LET ins == _insert_trade_async(st.rows, batch[i].trade_id, collector)
         IN  IF ins.violation
             THEN [st EXCEPT !.exc = "AttributeError", !.violation = TRUE]
             ELSE IF batch[i].large
             THEN [st EXCEPT !.rows = ins.rows, !.exc = "AttributeError"]
             ELSE SaveLoop([st EXCEPT !.rows = ins.rows, !.saved = @ + 1],
                           batch, i + 1, db_fail, collector)

save_trades(rows, batch, db_fail, collector) ==
    SaveLoop([rows |-> rows, exc |-> "none", violation |-> FALSE, saved |-> 0],
             batch, 1, db_fail, collector)

\* the trade ids of a batch counted into the submissions
Submitted(subs, batch) ==
    [k \in SaveKeys |-> subs[k] + Cardinality({i \in 1 .. Len(batch) : batch[i].trade_id = k})]

\* a collector hands a batch to save_trades
SaveTrades(batch, db_fail) ==
    /\ strategy \in SavingStrategies
    /\ \A k \in SaveKeys : Submitted(submissions, batch)[k] <= MaxSubmissions
    /\ LET res == save_trades(row_count, batch, db_fail, strategy)
       IN  /\ row_count' = res.rows
           /\ save_exc' = res.exc
           /\ dup_key_error' = (dup_key_error \/ res.violation)
           /\ stats' = IF res.exc = "none"
                       THEN [stats EXCEPT !.total_trades_saved = @ + res.saved]
                       ELSE stats
    /\ submissions' = Submitted(submissions, batch)
    /\ UNCHANGED <<now, running, last_data_time, error_streak, main_pc, main_timer,
                   start_exc, cycle_result, stop_pc, taskVars, sinkVars, wsVars, horizon,
                   queueVars, cacheVars, ohlcVars, enabled, orchVars, pollVars, normVars, convVars, lateVars>>

InitSaveSpec ==
    /\ InitCore /\ InitTasks /\ InitSink /\ InitWS /\ InitQueue /\ InitExt
    /\ bot_ready
    /\ strategy \in SavingStrategies
    /\ horizon = 0

NextSave ==
    \E batch \in SaveBatches, db_fail \in 0 .. MaxBatch : SaveTrades(batch, db_fail)

SpecSave == InitSaveSpec /\ [][NextSave]_vars

(***************************************************************************)
(* The OHLC collector: paginated backfill, then live tail.  Times are in   *)
(* seconds (the collector's are milliseconds); a page of new candles is    *)
(* given by the largest open_time in it.                                   *)
(***************************************************************************)
\* 22 and 17 August 2017 in the collector; here the origin of the time axis
earliest_timestamp == 0

\* MAX(open_time) a table can hold when the collector is initialised: 121, 120
\* and 119 minutes before OhlcStart
StoredTimes ==
    {OhlcStart - live_window - TimeStep, OhlcStart - live_window,
     OhlcStart - live_window + TimeStep}

\* the open_time a page of candles can end with: the stored ones, one that is
\* two hours old when the clock has moved on by 2 * TimeStep, and recent ones
OpenTimes ==
    StoredTimes \cup {OhlcStart - live_window + 2 * TimeStep,
                      OhlcStart - TimeStep, OhlcStart, OhlcStart + collection_interval}

\* the live page size in either mode
live_limit_always(catching) == live_limit

\* limit of _collect_currency_data
PageLimit(catching) == IF catching THEN catching_up_limit ELSE live_limit

\* catching_up set by the age of the newest candle alone
mode_follows_gap(catching, time_diff) == time_diff >= live_window

\* `if status['catching_up']: ... if time_diff < 2 * 60 * 60 * 1000:
\* status['catching_up'] = False`: catching_up after a page of new candles
ModeAfterPage(catching, time_diff) ==
    IF catching /\ time_diff < live_window THEN FALSE ELSE catching

ohlcUnchanged ==
    UNCHANGED <<running, main_pc, main_timer, start_exc, stop_pc, taskVars, sinkVars,
                wsVars, horizon, queueVars, cacheVars, saveVars, enabled, orchVars, pollVars,
                normVars, convVars, lateVars>>

\* _check_last_saved_data: result[c] is MAX(open_time) of the currency's table,
\* NoTime if the table has no candle or the query raised
OhlcInitCollector(result) ==
    /\ ohlc_pc = "created"
    /\ last_timestamp' = [c \in DOMAIN result |->
            IF result[c] # NoTime THEN result[c] ELSE earliest_timestamp]
    /\ catching_up' = [c \in DOMAIN result |->
            IF result[c] # NoTime /\ now - result[c] < live_window
            THEN FALSE ELSE catching_up[c]]
    /\ ohlc_pc' = "cycle"
    /\ ohlc_idx' = 1
    /\ UNCHANGED <<now, stats, last_data_time, error_streak, cycle_result,
                   page_closed_gap, page_limit>>
    /\ ohlcUnchanged

\* _collect_currency_data inside the try of _collect_data, for the currency at
\* ohlc_idx.  Either it failed (the fetch, the filter or the save raised: the
\* failure is counted by _collect_currency_data, re-raised and counted again by
\* _collect_data), or page is NoTime (no new candle) or the largest open_time
\* saved.
OhlcCollectCurrency(failed, page) ==
    /\ ohlc_pc = "cycle"
    /\ ohlc_idx <= Len(currency_pairs)
    /\ LET c == currency_pairs[ohlc_idx]
       IN  /\ page_limit' = [page_limit EXCEPT ![c] = PageLimit(catching_up[c])]
           /\ IF failed
              THEN /\ stats' = [stats EXCEPT !.total_requests = @ + 1,
                                             !.failed_requests = @ + 2]
                   /\ UNCHANGED <<last_timestamp, catching_up, page_closed_gap>>
              ELSE /\ stats' = [stats EXCEPT !.total_requests = @ + 1,
                                             !.successful_requests = @ + 1]
                   /\ IF page = NoTime
                      THEN UNCHANGED <<last_timestamp, catching_up, page_closed_gap>>
                      ELSE /\ page > last_timestamp[c]
                           /\ page <= now
                           /\ last_timestamp' = [last_timestamp EXCEPT ![c] = page]
                           /\ catching_up' = [catching_up EXCEPT ![c] =
                                  ModeAfterPage(@, now - page)]
                           /\ page_closed_gap' = [page_closed_gap EXCEPT ![c] =
                                  @ \/ now - page < live_window]
    /\ ohlc_idx' = ohlc_idx + 1
    /\ UNCHANGED <<now, last_data_time, error_streak, cycle_result, ohlc_pc>>
    /\ ohlcUnchanged

\* _collect_data returns (it catches every exception of a currency): the run
\* loop records a successful cycle and sleeps collection_interval
OhlcCycleEnd ==
    /\ ohlc_pc = "cycle"
    /\ ohlc_idx > Len(currency_pairs)
    /\ last_data_time' = now
    /\ error_streak' = 0
    /\ cycle_result' = "ok"
    /\ ohlc_pc' = "sleep"
    /\ UNCHANGED <<now, stats, ohlcVars_but_pc>>
    /\ ohlcUnchanged

\* the sleep between two cycles is over
OhlcSleepDone ==
    /\ ohlc_pc = "sleep"
    /\ now + collection_interval <= OhlcStart + horizon
    /\ now' = now + collection_interval
    /\ ohlc_pc' = "cycle"
    /\ ohlc_idx' = 1
    /\ UNCHANGED <<stats, last_data_time, error_streak, cycle_result, catching_up,
                   last_timestamp, page_closed_gap, page_limit>>
    /\ ohlcUnchanged

InitOHLCSpec ==
    /\ now = OhlcStart
    /\ running = TRUE
    /\ stats = [total_requests |-> 0, successful_requests |-> 0,
                failed_requests |-> 0, total_trades_saved |-> 0]
    /\ last_data_time = NoTime
    /\ error_streak = 0
    /\ main_pc = "collect"
    /\ main_timer = 0
    /\ start_exc = "none"
    /\ cycle_result = "none"
    /\ stop_pc = "idle"
    /\ InitTasks /\ InitSink /\ InitWS /\ InitQueue /\ InitExt
    /\ bot_ready
    /\ strategy = "ohlc"
    /\ horizon = MaxTimeOhlc

NextOHLC ==
    \/ \E result \in [{currency_pairs[i] : i \in 1 .. Len(currency_pairs)} ->
                          {NoTime} \cup StoredTimes] : OhlcInitCollector(result)
    \/ \E page \in {NoTime} \cup OpenTimes : OhlcCollectCurrency(FALSE, page)
    \/ OhlcCollectCurrency(TRUE, NoTime)
    \/ OhlcCycleEnd
    \/ OhlcSleepDone

SpecOHLC == InitOHLCSpec /\ [][NextOHLC]_vars

(***************************************************************************)
(* CollectorOrchestrator and main() of cmd/main.py over several            *)
(* collectors.  A collector is followed through its life only: constructed *)
(* and initialised, its run loop inside a collection cycle or asleep       *)
(* between two, ended or raised.                                           *)
(***************************************************************************)
\* the order of _init_collectors
CollectorOrder == <<"deribit", "okx", "bybit", "binance", "ohlc">>
Collectors == {CollectorOrder[i] : i \in 1 .. Len(CollectorOrder)}

Registered == {collectors[i] : i \in 1 .. Len(collectors)}

\* a run loop that is not over
InRunLoop(c) == col_pc[c] \in {"cycle", "sleep"}

orchUnchanged ==
    UNCHANGED <<now, coreVars, taskVars, sinkVars, wsVars, horizon, queueVars, cacheVars,
                saveVars, ohlcVars, enabled, pollVars, normVars, convVars, lateVars>>

\* _init_collectors, one `if config.collectors.<c>_enabled:` block: a disabled
\* collector is passed over; an enabled one is constructed and initialised and
\* appended to self.collectors, or its init() raises, which init() logs and
\* re-raises to main(): `except Exception` there calls orchestrator.stop()
OrchInitCollector(ok) ==
    /\ app_pc = "init"
    /\ init_idx <= Len(CollectorOrder)
    /\ LET c == CollectorOrder[init_idx]
       IN  IF c \notin enabled
           THEN UNCHANGED <<collectors, col_pc, app_pc, init_failed, shutdown_pc>>
           ELSE IF ok
           THEN /\ collectors' = Append(collectors, c)
                /\ col_pc' = [col_pc EXCEPT ![c] = "initialized"]
                /\ UNCHANGED <<app_pc, init_failed, shutdown_pc>>
           ELSE /\ init_failed' = c
                /\ app_pc' = "failed"
                /\ shutdown_pc' = "collectors"
                /\ UNCHANGED <<collectors, col_pc>>
    /\ init_idx' = init_idx + 1
    /\ UNCHANGED <<col_running, stop_called, stop_idx, sink_closed, gateway_closed,
                   late_io, task_error>>
    /\ orchUnchanged

\* CollectorOrchestrator.start up to `await asyncio.gather(*tasks)`: one task per
\* registered collector.  The tasks are ready in the order of their creation
\* and ahead of everything that is created later, so each runs the head of
\* BaseCollector.start (running = True, the loop is entered) before anything
\* else happens.
OrchStart ==
    /\ app_pc = "init"
    /\ init_idx > Len(CollectorOrder)
    /\ app_pc' = "gather"
    /\ col_pc' = [c \in Collectors |-> IF c \in Registered THEN "cycle" ELSE col_pc[c]]
    /\ col_running' = [c \in Collectors |-> c \in Registered]
    /\ UNCHANGED <<collectors, init_idx, init_failed, stop_called,
                   shutdown_pc, stop_idx, sink_closed, gateway_closed, late_io, task_error>>
    /\ orchUnchanged

\* a collection cycle goes through: what it fetched is written to the
\* Persistence Gateway, then sleep(collection_interval)
ColCycleOk(c) ==
    /\ col_pc[c] = "cycle"
    /\ late_io' = (late_io \/ gateway_closed)
    /\ col_pc' = [col_pc EXCEPT ![c] = "sleep"]
    /\ UNCHANGED <<collectors, init_idx, init_failed, app_pc, col_running, stop_called,
                   shutdown_pc, stop_idx, sink_closed, gateway_closed, task_error>>
    /\ orchUnchanged

\* a collection cycle raises: _handle_error sends a connection-error alert
\* (notifies) or not; it returns, or raises AttributeError on the missing
\* notify_high_error_rate (fatal), and start() raises through its finally
ColCycleFail(c, notifies, fatal) ==
    /\ col_pc[c] = "cycle"
    /\ late_io' = (late_io \/ (notifies /\ sink_closed))
    /\ col_pc' = [col_pc EXCEPT ![c] = IF fatal THEN "raised" ELSE "sleep"]
    /\ task_error' = (task_error \/ fatal)
    /\ UNCHANGED <<collectors, init_idx, init_failed, app_pc, col_running, stop_called,
                   shutdown_pc, stop_idx, sink_closed, gateway_closed>>
    /\ orchUnchanged

\* the sleep between two cycles is over: `while self.running`
ColWake(c) ==
    /\ col_pc[c] = "sleep"
    /\ col_pc' = [col_pc EXCEPT ![c] = IF col_running[c] THEN "cycle" ELSE "ended"]
    /\ UNCHANGED <<collectors, init_idx, init_failed, app_pc, col_running, stop_called,
                   shutdown_pc, stop_idx, sink_closed, gateway_closed, late_io, task_error>>
    /\ orchUnchanged

\* gather re-raises the first exception of a task: the except clause of
\* CollectorOrchestrator.start calls self.stop()
OrchGatherRaises ==
    /\ app_pc = "gather"
    /\ \E c \in Registered : col_pc[c] = "raised"
    /\ app_pc' = "stopping"
    /\ shutdown_pc' = IF shutdown_pc = "idle" THEN "collectors" ELSE shutdown_pc
    /\ UNCHANGED <<collectors, init_idx, init_failed, col_pc, col_running, stop_called,
                   stop_idx, sink_closed, gateway_closed, late_io, task_error>>
    /\ orchUnchanged

\* every task has ended: gather and start() return, and so does main()
OrchGatherDone ==
    /\ app_pc = "gather"
    /\ \A c \in Registered : col_pc[c] = "ended"
    /\ app_pc' = "returned"
    /\ UNCHANGED <<collectors, init_idx, init_failed, col_pc, col_running, stop_called,
                   shutdown_pc, stop_idx, sink_closed, gateway_closed, late_io, task_error>>
    /\ orchUnchanged

\* SIGTERM or SIGINT: signal_handler creates a task running orchestrator.stop()
SignalStop ==
    /\ app_pc = "gather"
    /\ shutdown_pc = "idle"
    /\ shutdown_pc' = "collectors"
    /\ UNCHANGED <<collectors, init_idx, init_failed, app_pc, col_pc, col_running,
                   stop_called, stop_idx, sink_closed, gateway_closed, late_io, task_error>>
    /\ orchUnchanged

\* CollectorOrchestrator.stop, `for collector in self.collectors: await
\* collector.stop()`, one collector.  BinanceCollector.stop awaits
\* trade_queue.join() after cancelling the only consumer of the queue: with a
\* trade left in the queue (hangs) it never returns.  Every other stop() ends in
\* BaseCollector.stop: running = False and the "stopped" notification.
OrchStopCollector(hangs) ==
    /\ shutdown_pc = "collectors"
    /\ stop_idx <= Len(collectors)
    /\ LET c == collectors[stop_idx]
       IN  /\ hangs => c = "binance"
           /\ stop_called' = [stop_called EXCEPT ![c] = TRUE]
           /\ IF hangs
              THEN /\ shutdown_pc' = "join"
                   /\ UNCHANGED <<col_running, stop_idx>>
              ELSE /\ col_running' = [col_running EXCEPT ![c] = FALSE]
                   /\ stop_idx' = stop_idx + 1
                   /\ UNCHANGED shutdown_pc
    /\ UNCHANGED <<collectors, init_idx, init_failed, app_pc, col_pc, sink_closed,
                   gateway_closed, late_io, task_error>>
    /\ orchUnchanged

\* ... after the loop: the Telegram task is cancelled and telegram_manager.stop()
\* closes the bot session
OrchStopTelegram ==
    /\ shutdown_pc = "collectors"
    /\ stop_idx > Len(collectors)
    /\ sink_closed' = TRUE
    /\ shutdown_pc' = "close"
    /\ UNCHANGED <<collectors, init_idx, init_failed, app_pc, col_pc, col_running,
                   stop_called, stop_idx, gateway_closed, late_io, task_error>>
    /\ orchUnchanged

\* ... `await db_manager.close()`: close() closes the pool and returns None,
\* which await rejects with TypeError
OrchCloseGateway ==
    /\ shutdown_pc = "close"
    /\ gateway_closed' = TRUE
    /\ shutdown_pc' = "raised"
    /\ UNCHANGED <<collectors, init_idx, init_failed, app_pc, col_pc, col_running,
                   stop_called, stop_idx, sink_closed, late_io, task_error>>
    /\ orchUnchanged

InitOrchSpec ==
    /\ InitCore /\ InitTasks /\ InitSink /\ InitWS /\ InitQueue
    /\ InitCache /\ InitSave /\ InitOhlc /\ InitPoll /\ InitNorm /\ InitConv /\ InitLate
    /\ bot_ready
    /\ strategy = "abstract"
    /\ horizon = 0
    /\ enabled \in {e \in SUBSET Collectors : Cardinality(e) \in 1 .. MaxEnabled}
    /\ InitOrchestrator

CollectorStep(c) ==
    \/ ColCycleOk(c)
    \/ \E notifies \in BOOLEAN : ColCycleFail(c, notifies, FALSE)
    \/ ColWake(c)

OrchestratorStep ==
    \/ OrchInitCollector(TRUE)
    \/ OrchStart
    \/ OrchGatherRaises
    \/ OrchGatherDone
    \/ \E hangs \in BOOLEAN : OrchStopCollector(hangs)
    \/ OrchStopTelegram
    \/ OrchCloseGateway

NextOrch ==
    \/ OrchestratorStep
    \/ \E c \in Collectors : CollectorStep(c)
    \/ OrchInitCollector(FALSE)
    \/ \E c \in Collectors, notifies \in BOOLEAN : ColCycleFail(c, notifies, TRUE)
    \/ SignalStop

SpecOrch == InitOrchSpec /\ [][NextOrch]_vars

\* every task that can take a step takes one; failures and signals are not owed
FairSpecOrch ==
    /\ SpecOrch
    /\ WF_vars(OrchestratorStep)
    /\ \A c \in Collectors : WF_vars(CollectorStep(c))

(***************************************************************************)
(* The polling collectors: _collect_data of the Bybit collector and of the *)
(* REST Deribit collector, one request per currency of currency_pairs,     *)
(* each inside its own try.                                                *)
(***************************************************************************)
PollingStrategies == {"bybit", "deribit_rest"}
Groups == {currency_pairs[i] : i \in 1 .. Len(currency_pairs)}
GroupOutcomes == {"saved", "empty", "fetch_error", "persist_error"}

\* the body of the loop raising at group idx, with no except clause around it:
\* the rest of the cycle is skipped
AbortAfterError(idx) == Len(currency_pairs) + 1

\* `except Exception`: the error is logged and counted, the for loop goes on
\* with the next currency
NextAfterError(idx) == idx + 1

\* total_trades_saved after n trades went through save_trades, b of them block
\* trades: save_trades counts what it inserted; the Bybit collector adds
\* len(processed_trades) once more, the Deribit one saves the block trades to a
\* second table
SavedAfter(saved, n, b) ==
    IF strategy = "bybit" THEN saved + n + n ELSE saved + n + b

pollUnchanged ==
    UNCHANGED <<running, main_pc, main_timer, start_exc, stop_pc, taskVars, sinkVars,
                wsVars, horizon, queueVars, cacheVars, saveVars, ohlcVars, enabled, orchVars,
                normVars, convVars, lateVars>>

\* the run loop enters _collect_data: at the start of the collector, and after
\* each sleep(collection_interval)
PollCycleBegin ==
    /\ poll_pc \in {"created", "sleep"}
    /\ poll_cycles < MaxPollCycles
    /\ poll_pc' = "cycle"
    /\ poll_cycles' = poll_cycles + 1
    /\ poll_idx' = 1
    /\ attempted' = {}
    /\ poll_failed' = {}
    /\ failed_at_start' = stats.failed_requests
    /\ now' = IF poll_pc = "sleep" THEN now + collection_interval ELSE now
    /\ UNCHANGED <<stats, last_data_time, error_streak, cycle_result>>
    /\ pollUnchanged

\* one pass of `for currency in self.currency_pairs`: the request is counted,
\* then the fetch raises, or returns nothing to save, or n trades (b of them
\* block trades) which save_trades stores or fails to store
PollGroup(outcome, n, b) ==
    /\ poll_pc = "cycle"
    /\ poll_idx <= Len(currency_pairs)
    /\ outcome = "saved" => n >= 1
    /\ outcome # "saved" => n = 0
    /\ b <= n
    /\ strategy = "bybit" => b = 0
    /\ attempted' = attempted \cup {currency_pairs[poll_idx]}
    /\ IF outcome \in {"fetch_error", "persist_error"}
       THEN /\ stats' = [stats EXCEPT !.total_requests = @ + 1,
                                      !.failed_requests = @ + 1]
            /\ poll_failed' = poll_failed \cup {currency_pairs[poll_idx]}
            /\ poll_idx' = NextAfterError(poll_idx)
       ELSE /\ stats' = [stats EXCEPT !.total_requests = @ + 1,
                                      !.successful_requests = @ + 1,
                                      !.total_trades_saved = SavedAfter(@, n, b)]
            /\ poll_idx' = poll_idx + 1
            /\ UNCHANGED poll_failed
    /\ UNCHANGED <<now, last_data_time, error_streak, cycle_result, poll_pc, poll_cycles,
                   failed_at_start>>
    /\ pollUnchanged

\* _collect_data returns: the run loop records a successful cycle and sleeps
PollCycleEnd ==
    /\ poll_pc = "cycle"
    /\ poll_idx > Len(currency_pairs)
    /\ last_data_time' = now
    /\ error_streak' = 0
    /\ cycle_result' = "ok"
    /\ poll_pc' = "sleep"
    /\ UNCHANGED <<now, stats, poll_idx, poll_cycles, attempted, poll_failed, failed_at_start>>
    /\ pollUnchanged

InitPollSpec ==
    /\ InitCore /\ InitTasks /\ InitSink /\ InitWS /\ InitQueue /\ InitExt
    /\ bot_ready
    /\ strategy \in PollingStrategies
    /\ horizon = 0

NextPoll ==
    \/ PollCycleBegin
    \/ \E outcome \in GroupOutcomes, n \in 0 .. MaxBatch, b \in 0 .. MaxBatch :
           PollGroup(outcome, n, b)
    \/ PollCycleEnd

SpecPoll == InitPollSpec /\ [][NextPoll]_vars

(***************************************************************************)
(* The normalizers: what each collector makes of one trade payload of a    *)
(* frame.  A raw field is absent, present but not of the form it should    *)
(* have ("bad": a price that is no number, an instrument name that is no   *)
(* option name), or "ok".  A normalizer yields no record or one record.    *)
(***************************************************************************)
Raw == {"absent", "bad", "ok"}
RawPayloads == [trade_id : Raw, price : Raw, size : Raw, instrument : Raw, ts : Raw, iv : Raw]
Exchanges == {"binance", "deribit", "okx", "bybit"}

\* _safe_float: None for None and for what float() rejects
_safe_float(raw) == IF raw = "ok" THEN "number" ELSE "None"

\* trade.get(key): None for a missing key
DictGet(raw) == IF raw = "absent" THEN "None" ELSE raw

\* BinanceCollector._process_single_trade up to the dict it builds: a field
\* that int() or float() rejects, and any of symbol, trade id, price and
\* quantity that is empty, ends it with a bare return
binance_process_single_trade(p) ==
    IF p.trade_id = "ok" /\ p.price = "ok" /\ p.size = "ok" /\ p.instrument # "absent"
    THEN <<[trade_id |-> "ok", price |-> "number", instrument |-> p.instrument]>>
    ELSE <<>>

\* DeribitCollector._process_market_trade: every field is read with get()
_process_market_trade(p) ==
    <<[trade_id |-> DictGet(p.trade_id), price |-> _safe_float(p.price),
       instrument |-> DictGet(p.instrument)]>>

\* OKXCollector._process_trade: int(trade['ts']), float(trade.get('sz', 0)),
\* float(fillVol) and trade['tradeId'] raise into the except clause, which
\* returns None; _convert_instrument_name returns what it cannot convert
_process_trade(p) ==
    IF p.ts # "ok" \/ p.size = "bad" \/ p.iv = "bad" \/ p.trade_id = "absent"
    THEN <<>>
    ELSE <<[trade_id |-> p.trade_id, price |-> _safe_float(p.price),
            instrument |-> IF p.instrument = "absent" THEN "" ELSE p.instrument]>>

\* BybitCollector: _filter_options and _filter_new_trades let a payload
\* through that has an option symbol and a non-empty execId, then
\* _process_single_trade builds the record
bybit_process_single_trade(p) ==
    IF p.instrument = "ok" /\ p.trade_id # "absent"
    THEN <<[trade_id |-> p.trade_id, price |-> _safe_float(p.price),
            instrument |-> p.instrument]>>
    ELSE <<>>

Normalized(exchange, p) ==
    CASE exchange = "binance" -> binance_process_single_trade(p)
      [] exchange = "deribit" -> _process_market_trade(p)
      [] exchange = "okx"     -> _process_trade(p)
      [] exchange = "bybit"   -> bybit_process_single_trade(p)

\* the record is handed to save_trades: always, but for the Deribit collector,
\* whose _filter_options keeps the records with an option instrument name
HandedToSave(exchange, rec) ==
    /\ rec # <<>>
    /\ exchange = "deribit" => rec[1].instrument = "ok"

\* the trade id goes into processed_trade_ids: the Binance and Bybit
\* collectors have such a cache and add every non-empty id they saved
AddedToCache(exchange, rec) ==
    /\ HandedToSave(exchange, rec)
    /\ exchange \in {"binance", "bybit"}
    /\ rec[1].trade_id # "None"

normUnchanged ==
    UNCHANGED <<now, coreVars, taskVars, sinkVars, wsVars, horizon, queueVars, cacheVars,
                saveVars, ohlcVars, enabled, orchVars, pollVars, convVars, lateVars>>

\* a frame with one trade payload arrives at a collector; one payload is
\* followed
NormalizePayload(exchange, p) ==
    /\ norm_exchange = "none"
    /\ norm_exchange' = exchange
    /\ norm_payload' = p
    /\ norm_record' = Normalized(exchange, p)
    /\ norm_saved' = HandedToSave(exchange, Normalized(exchange, p))
    /\ norm_cached' = AddedToCache(exchange, Normalized(exchange, p))
    /\ normUnchanged

InitNormSpec ==
    /\ InitCore /\ InitTasks /\ InitSink /\ InitWS /\ InitQueue /\ InitExt
    /\ bot_ready
    /\ strategy = "abstract"
    /\ horizon = 0

NextNorm ==
    \E exchange \in Exchanges, p \in RawPayloads : NormalizePayload(exchange, p)

SpecNorm == InitNormSpec /\ [][NextNorm]_vars

(***************************************************************************)
(* OKXCollector._convert_instrument_name (and convert_instrument_name of   *)
(* src/internal/okx.py, the same code).  A name is given by its tokens:    *)
(* how many there are when it is split at '-', and for a five-token name   *)
(* currency, quote, the digits of the date code, strike and option type.   *)
(***************************************************************************)
ConvYears  == {23, 24, 70}
ConvMonths == {0, 2, 3, 12, 13}
ConvDays   == {0, 28, 29, 30, 31, 32}
NativeNames ==
    [tokens : {4, 5}, currency : {"BTC", "ETH"}, quote : {"USD"},
     yy : ConvYears, mm : ConvMonths, dd : ConvDays, strike : {"60000"}, type : {"C", "P"}]

\* %b of strftime in the C locale, upper-cased
MonthAbbr ==
    <<"JAN", "FEB", "MAR", "APR", "MAY", "JUN", "JUL", "AUG", "SEP", "OCT", "NOV", "DEC">>

IsLeap(year) == year % 4 = 0 /\ (year % 100 # 0 \/ year % 400 = 0)
DaysInMonth(year, month) ==
    IF month = 2 THEN (IF IsLeap(year) THEN 29 ELSE 28)
    ELSE IF month \in {4, 6, 9, 11} THEN 30 ELSE 31

\* %y of strptime: 69..99 are 1969..1999, 0..68 are 2000..2068
FullYear(yy) == IF yy >= 69 THEN 1900 + yy ELSE 2000 + yy

\* datetime.strptime(date_code, '%y%m%d'): the date, or ValueError
strptime(yy, mm, dd) ==
    IF mm \in 1 .. 12 /\ dd \in 1 .. DaysInMonth(FullYear(yy), mm)
    THEN [error |-> FALSE, year |-> FullYear(yy), month |-> mm, day |-> dd]
    ELSE [error |-> TRUE, year |-> 0, month |-> 0, day |-> 0]

\* the name returned as it came
Unconverted(n) ==
    [converted |-> FALSE, currency |-> n.currency, day |-> n.dd, mon |-> "",
     year |-> n.yy, strike |-> n.strike, type |-> n.type]

\* the conversion with the date code copied digit for digit
copy_date_code(n) == Unconverted(n)

\* _convert_instrument_name: parts[0], strftime('%d%b%y').upper() of the parsed
\* parts[2], parts[3] and parts[4]; the name itself when it has not five parts
\* or its date does not parse
_convert_instrument_name(n) ==
    IF n.tokens # 5
    THEN Unconverted(n)
    ELSE LET date_obj == strptime(n.yy, n.mm, n.dd)
         IN  IF date_obj.error
             THEN Unconverted(n)
             ELSE [converted |-> TRUE, currency |-> n.currency, day |-> date_obj.day,
                   mon |-> MonthAbbr[date_obj.month], year |-> date_obj.year % 100,
                   strike |-> n.strike, type |-> n.type]

convUnchanged ==
    UNCHANGED <<now, coreVars, taskVars, sinkVars, wsVars, horizon, queueVars, cacheVars,
                saveVars, ohlcVars, enabled, orchVars, pollVars, normVars, lateVars>>

\* the instId of a trade is converted; one name is followed
ConvertName(n) ==
    /\ ~conv_done
    /\ conv_done' = TRUE
    /\ conv_in' = n
    /\ conv_out' = _convert_instrument_name(n)
    /\ convUnchanged

InitConvSpec ==
    /\ InitCore /\ InitTasks /\ InitSink /\ InitWS /\ InitQueue /\ InitExt
    /\ bot_ready
    /\ strategy = "okx"
    /\ horizon = 0

NextConv == \E n \in NativeNames : ConvertName(n)

SpecConv == InitConvSpec /\ [][NextConv]_vars

(***************************************************************************)
(* The alerting sink under concurrent callers.  send_notification runs     *)
(* from its entry to `await self.bot.send_message` without a suspension    *)
(* point: the cooldown test and the write of alert_cache are one step of   *)
(* the event loop.  The caller is then suspended inside send_message, and  *)
(* any other task may call send_notification meanwhile.                    *)
(***************************************************************************)
SinkStep == 100
MaxTimeSink == 300
MaxAttempts == 4

\* the messages the callers of this specification send, with their levels
SinkCalls == {[message |-> StoppedMsg, level |-> "warning"],
              [message |-> ConnErrorMsg(<<"timeout", "a">>), level |-> "error"]}

sndUnchanged ==
    UNCHANGED <<coreVars, taskVars, bot_ready, connected_status, wsVars, horizon, queueVars,
                cacheVars, saveVars, ohlcVars, enabled, orchVars, pollVars, normVars,
                convVars, tdVars, connVars, pageVars>>

\* a task calls send_notification: the code up to the await of send_message
SinkAttempt(task, call) ==
    /\ snd_pc[task] = "idle"
    /\ Len(attempts) < MaxAttempts
    /\ LET sink == send_notification(Sink, bot_ready, call.message, call.level, name, now)
           passed == sink # Sink
       IN  /\ SetSink(sink)
           /\ attempts' = Append(attempts, [task |-> task,
                                            key |-> AlertKey(name, call.level, call.message),
                                            time |-> now,
                                            outcome |-> IF passed THEN "in flight"
                                                        ELSE "suppressed"])
           /\ snd_pc' = [snd_pc EXCEPT ![task] = IF passed THEN "sending" ELSE "idle"]
    /\ UNCHANGED now
    /\ sndUnchanged

\* the call a task is suspended in
LastAttemptOf(task) ==
    CHOOSE i \in DOMAIN attempts :
        /\ attempts[i].task = task
        /\ \A j \in DOMAIN attempts : attempts[j].task = task => j <= i

\* the attempt passed the cooldown test and reached bot.send_message
Passed(a) == a.outcome # "suppressed"

\* bot.send_message returns or raises; the exception is logged and the
\* cooldown recorded before the call stays
SinkSendDone(task, ok) ==
    /\ snd_pc[task] = "sending"
    /\ snd_pc' = [snd_pc EXCEPT ![task] = "idle"]
    /\ attempts' = [attempts EXCEPT ![LastAttemptOf(task)].outcome =
                                      IF ok THEN "sent" ELSE "failed"]
    /\ UNCHANGED <<now, alert_cache, sent_messages>>
    /\ sndUnchanged

\* time passes
SinkTick ==
    /\ now + SinkStep <= MaxTimeSink
    /\ now' = now + SinkStep
    /\ UNCHANGED <<alert_cache, sent_messages, sndVars>>
    /\ sndUnchanged

InitSinkSpec ==
    /\ InitCore /\ InitTasks /\ InitSink /\ InitWS /\ InitQueue /\ InitExt
    /\ bot_ready
    /\ strategy = "abstract"
    /\ horizon = 0

NextSink ==
    \/ \E task \in NotifyingTasks, call \in SinkCalls : SinkAttempt(task, call)
    \/ \E task \in NotifyingTasks, ok \in BOOLEAN : SinkSendDone(task, ok)
    \/ SinkTick

SpecSink == InitSinkSpec /\ [][NextSink]_vars

(***************************************************************************)
(* stop() of the WebSocket strategies.  DeribitCollector.stop cancels the  *)
(* heartbeat task, sends one unsubscribe per currency inside a try, then   *)
(* closes the socket and the session and calls BaseCollector.stop;         *)
(* OKXCollector.stop closes the socket and the session and calls           *)
(* BaseCollector.stop.  Only the unsubscribe sends are inside a try.       *)
(***************************************************************************)
TeardownStrategies == {"deribit", "okx"}
StopEnded == {"stopped", "raised"}

tdUnchanged ==
    UNCHANGED <<now, stats, last_data_time, error_streak, main_pc, main_timer, start_exc,
                cycle_result, stop_pc, taskVars, bot_ready, connected_status, strategy, ws_pc,
                retry_count, ws_delay, horizon, queueVars, cacheVars, saveVars, ohlcVars,
                enabled, orchVars, pollVars, normVars, convVars, sndVars, connVars,
                pageVars>>

\* the step after the socket is dealt with: `if self.session and not self.session.closed`
AfterSocket == IF session_open THEN "close_session" ELSE "base_stop"

\* stop() is entered: the heartbeat task, if any, is cancelled;
\* `if self.websocket and not self.websocket.closed`
TdBegin ==
    /\ td_pc = "idle"
    /\ td_pc' = IF websocket_open
                THEN IF strategy = "deribit" THEN "unsubscribe" ELSE "close_ws"
                ELSE AfterSocket
    /\ heartbeat_task' = IF heartbeat_task = "none" THEN "none" ELSE "cancelled"
    /\ UNCHANGED <<running, websocket_open, alert_cache, sent_messages, td_idx, session_open,
                   td_failed, td_log>>
    /\ tdUnchanged

\* await self.websocket.send(unsubscribe_msg) for the next currency, inside
\* try/except Exception: a failure is logged as a warning and ends the loop
TdUnsubscribe(fails) ==
    /\ td_pc = "unsubscribe"
    /\ IF fails
       THEN /\ td_failed' = td_failed \cup {"unsubscribe"}
            /\ td_log' = td_log \cup {"unsubscribe"}
            /\ td_pc' = "close_ws"
            /\ UNCHANGED td_idx
       ELSE /\ td_idx' = td_idx + 1
            /\ td_pc' = IF td_idx = Len(currency_pairs) THEN "settle" ELSE "unsubscribe"
            /\ UNCHANGED <<td_failed, td_log>>
    /\ UNCHANGED <<running, websocket_open, alert_cache, sent_messages, session_open,
                   heartbeat_task>>
    /\ tdUnchanged

\* await asyncio.sleep(0.1) after the last unsubscribe
TdSettle ==
    /\ td_pc = "settle"
    /\ td_pc' = "close_ws"
    /\ UNCHANGED <<running, websocket_open, alert_cache, sent_messages, td_idx, session_open,
                   td_failed, td_log, heartbeat_task>>
    /\ tdUnchanged

\* await self.websocket.close(), outside any try: an exception leaves stop()
TdCloseSocket(fails) ==
    /\ td_pc = "close_ws"
    /\ IF fails
       THEN /\ td_failed' = td_failed \cup {"close_ws"}
            /\ td_pc' = "raised"
            /\ UNCHANGED websocket_open
       ELSE /\ websocket_open' = FALSE
            /\ td_pc' = AfterSocket
            /\ UNCHANGED td_failed
    /\ UNCHANGED <<running, alert_cache, sent_messages, td_idx, session_open, td_log,
                   heartbeat_task>>
    /\ tdUnchanged

\* await self.session.close(), outside any try
TdCloseSession(fails) ==
    /\ td_pc = "close_session"
    /\ IF fails
       THEN /\ td_failed' = td_failed \cup {"close_session"}
            /\ td_pc' = "raised"
            /\ UNCHANGED session_open
       ELSE /\ session_open' = FALSE
            /\ td_pc' = "base_stop"
            /\ UNCHANGED td_failed
    /\ UNCHANGED <<running, websocket_open, alert_cache, sent_messages, td_idx, td_log,
                   heartbeat_task>>
    /\ tdUnchanged

\* await super().stop(): running = False, the stats are logged and the
\* 'collector stopped' notification is sent
TdBaseStop ==
    /\ td_pc = "base_stop"
    /\ running' = FALSE
    /\ SetSink(notify_collector_stopped(Sink, bot_ready, name, now))
    /\ td_pc' = "stopped"
    /\ UNCHANGED <<websocket_open, td_idx, session_open, td_failed, td_log, heartbeat_task>>
    /\ tdUnchanged

\* a running WebSocket collector whose socket and session may be open
InitTeardownSpec ==
    /\ now = 0
    /\ running = TRUE
    /\ stats = [total_requests |-> 0, successful_requests |-> 0,
                failed_requests |-> 0, total_trades_saved |-> 0]
    /\ last_data_time = NoTime
    /\ error_streak = 0
    /\ main_pc = "collect"
    /\ main_timer = 0
    /\ start_exc = "none"
    /\ cycle_result = "none"
    /\ stop_pc = "idle"
    /\ InitTasks /\ InitSink
    /\ ws_pc = "idle" /\ retry_count = 0 /\ ws_delay = 0
    /\ websocket_open \in BOOLEAN
    /\ InitQueue
    /\ InitCache /\ InitSave /\ InitOhlc /\ enabled = {} /\ InitOrchestrator /\ InitPoll
    /\ InitNorm /\ InitConv /\ InitSnd /\ InitConn /\ InitPage
    /\ td_pc = "idle" /\ td_idx = 1 /\ td_failed = {} /\ td_log = {}
    /\ session_open \in BOOLEAN
    /\ strategy \in TeardownStrategies
    /\ heartbeat_task \in IF strategy = "okx" THEN {"none"}
                          ELSE IF websocket_open THEN {"none", "running"}
                          ELSE {"none", "cancelled"}
    /\ horizon = 0

NextTeardown ==
    \/ TdBegin
    \/ \E fails \in BOOLEAN : TdUnsubscribe(fails)
    \/ TdSettle
    \/ \E fails \in BOOLEAN : TdCloseSocket(fails)
    \/ \E fails \in BOOLEAN : TdCloseSession(fails)
    \/ TdBaseStop

SpecTeardown == InitTeardownSpec /\ [][NextTeardown]_vars

(***************************************************************************)
(* One WebSocket connection at a time, frame by frame: the retry loop of   *)
(* _collect_data, the sends of _connect_and_subscribe, the receive loop    *)
(* and _process_message of the Deribit and OKX collectors, and             *)
(* _options_websocket_stream of the Binance collector.  What a data frame  *)
(* does to the tables and the queue is left to the specifications above;   *)
(* here a frame counts, sends and keeps or ends the connection.  For the   *)
(* Binance stream retry_count and ws_delay stand for the locals `attempt`  *)
(* and `reconnect_delay`.                                                  *)
(***************************************************************************)
MaxConnections == 2
MaxFrames == 2

ConnStrategies == {"deribit", "okx", "binance"}

\* _setup_heartbeat: "params": {"interval": 30}
heartbeat_interval == 30

SetHeartbeatMsg == [method |-> "public/set_heartbeat", interval |-> heartbeat_interval,
                    channel |-> ""]
SubscribeMsg(currency) == [method |-> "public/subscribe", interval |-> 0, channel |-> currency]
OkxSubscribeMsg(currency) == [method |-> "subscribe", interval |-> 0, channel |-> currency]
TestMsg == [method |-> "public/test", interval |-> 0, channel |-> ""]

\* the messages _connect_and_subscribe sends before its receive loop
HandshakeLen(s) ==
    CASE s = "deribit" -> 1 + Len(currency_pairs)
      [] s = "okx"     -> Len(currency_pairs)
      [] OTHER         -> 0

\* the subscribes first and the heartbeat setup last
subscribe_before_heartbeat(s, k) ==
    IF s = "deribit"
    THEN IF k <= Len(currency_pairs) THEN SubscribeMsg(currency_pairs[k]) ELSE SetHeartbeatMsg
    ELSE OkxSubscribeMsg(currency_pairs[k])

\* the k-th of them: _setup_heartbeat, then _subscribe_to_market_trades for
\* each currency of currency_pairs in turn (OKX: _subscribe_to_trades only)
HandshakeMessage(s, k) ==
    IF s = "deribit"
    THEN IF k = 1 THEN SetHeartbeatMsg ELSE SubscribeMsg(currency_pairs[k - 1])
    ELSE OkxSubscribeMsg(currency_pairs[k])

\* the frames a connection can deliver, by what _process_message makes of them
FrameKinds(s) ==
    CASE s = "deribit" -> {"subscription", "bad_subscription", "test_request", "heartbeat",
                           "result", "error", "malformed", "unexpected"}
      [] s = "okx"     -> {"data", "bad_data", "subscribe_event", "error", "malformed",
                           "unexpected"}
      [] OTHER         -> {"trade", "malformed", "unexpected"}

\* not JSON, JSON of another shape, a payload the handler raises on, an error frame
BadFrames == {"malformed", "unexpected", "bad_subscription", "bad_data", "error"}

\* a heartbeat of every type is answered
reply_to_any_heartbeat(s, kind, open) ==
    IF s = "deribit" /\ kind \in {"test_request", "heartbeat"} /\ open
    THEN <<TestMsg>> ELSE <<>>

\* what processing a frame sends: _handle_heartbeat answers a test_request
\* with public/test on self.websocket; a send on a closed socket raises, which
\* is caught and logged.  No other branch of _process_message sends.
_handle_heartbeat(s, kind, open) ==
    IF s = "deribit" /\ kind = "test_request" /\ open THEN <<TestMsg>> ELSE <<>>

\* the counters after a frame: _handle_market_data and the OKX data branch
\* count a saved batch, _handle_market_data counts what it raised on
FrameStats(s, kind) ==
    CASE kind \in {"subscription", "data"} ->
             [stats EXCEPT !.successful_requests = @ + 1]
      [] kind = "bad_subscription" -> [stats EXCEPT !.failed_requests = @ + 1]
      [] OTHER -> stats

\* a bad frame ends the receive loop
raise_on_bad_frame(s, kind) == IF kind \in BadFrames THEN "lost" ELSE "streaming"

\* where the receive loop is after a frame: every _process_message and
\* _handle_options_message catches Exception, and the Binance loop has its
\* own try/continue around the call
AfterFrame(s, kind) == "streaming"

connUnchanged ==
    UNCHANGED <<now, last_data_time, error_streak, main_pc, main_timer, start_exc,
                cycle_result, stop_pc, taskVars, sinkVars, strategy, horizon, queueVars,
                cacheVars, saveVars, ohlcVars, enabled, orchVars, pollVars, normVars,
                convVars, sndVars, td_pc, td_idx, session_open, td_failed, td_log, pageVars>>

\* the way out of a connection that raised: Deribit cancels the heartbeat task
\* in its finally; the except clauses of _collect_data count a retry and sleep
\* (Binance: connected = False, then sleep(reconnect_delay))
ConnRaised ==
    /\ websocket_open' = FALSE
    /\ heartbeat_task' = IF heartbeat_task = "running" THEN "cancelled" ELSE heartbeat_task
    /\ ws_pc' = "backoff"
    /\ IF strategy = "binance"
       THEN UNCHANGED <<retry_count, ws_delay>>
       ELSE /\ retry_count' = retry_count + 1
            /\ ws_delay' = Min((retry_count + 1) * 2, max_retry_sleep)

\* websockets.connect returns a socket or raises
ConnOpen(ok) ==
    /\ ws_pc = "connecting"
    /\ IF ok
       THEN /\ conn_no < MaxConnections
            /\ conn_no' = conn_no + 1
            /\ websocket_open' = TRUE
            /\ hs_idx' = 0
            /\ outbox' = <<>>
            /\ frame_log' = <<>>
            /\ ws_pc' = IF HandshakeLen(strategy) = 0 THEN "streaming" ELSE "handshake"
            /\ IF strategy = "binance"
               THEN retry_count' = 0 /\ ws_delay' = 1
               ELSE UNCHANGED <<retry_count, ws_delay>>
            /\ UNCHANGED heartbeat_task
       ELSE /\ retry_count < max_retries
            /\ ConnRaised
            /\ UNCHANGED connVars
    /\ UNCHANGED <<running, stats>>
    /\ connUnchanged

\* the next send of _connect_and_subscribe; after the last one Deribit starts
\* the heartbeat monitor task and the receive loop begins
ConnHandshake(ok) ==
    /\ ws_pc = "handshake"
    /\ IF ok
       THEN /\ hs_idx' = hs_idx + 1
            /\ outbox' = Append(outbox, HandshakeMessage(strategy, hs_idx + 1))
            /\ IF hs_idx + 1 = HandshakeLen(strategy)
               THEN /\ ws_pc' = "streaming"
                    /\ heartbeat_task' = IF strategy = "deribit" THEN "running"
                                         ELSE heartbeat_task
               ELSE UNCHANGED <<ws_pc, heartbeat_task>>
            /\ UNCHANGED <<retry_count, ws_delay, websocket_open>>
       ELSE /\ ConnRaised
            /\ UNCHANGED <<hs_idx, outbox>>
    /\ UNCHANGED <<running, stats, conn_no, frame_log>>
    /\ connUnchanged

\* recv returns a frame and _process_message handles it; `open` is whether
\* the socket still takes a send while it does
ConnFrame(kind, open) ==
    /\ ws_pc = "streaming"
    /\ websocket_open
    /\ Len(frame_log) < MaxFrames
    /\ kind \in FrameKinds(strategy)
    /\ ~open => strategy = "deribit" /\ kind = "test_request"
    /\ LET sends == _handle_heartbeat(strategy, kind, open)
       IN  /\ outbox' = outbox \o sends
           /\ frame_log' = Append(frame_log, [kind |-> kind, open |-> open,
                                              sends |-> Len(sends)])
    /\ stats' = FrameStats(strategy, kind)
    /\ IF AfterFrame(strategy, kind) = "streaming"
       THEN /\ websocket_open' = open
            /\ UNCHANGED <<ws_pc, retry_count, ws_delay, heartbeat_task>>
       ELSE ConnRaised
    /\ UNCHANGED <<running, conn_no, hs_idx>>
    /\ connUnchanged

\* recv raises ConnectionClosed (Deribit also: no frame for 60 s).  The OKX
\* loop leaves with break, _connect_and_subscribe returns and the count is
\* reset; the others count a failure
ConnLost ==
    /\ ws_pc = "streaming"
    /\ IF strategy = "okx"
       THEN /\ websocket_open' = FALSE
            /\ retry_count' = 0
            /\ ws_pc' = "connecting"
            /\ UNCHANGED <<ws_delay, heartbeat_task>>
       ELSE ConnRaised
    /\ UNCHANGED <<running, stats, connVars>>
    /\ connUnchanged

\* the sleep is over and the loop is tested again: `while self.running and
\* retry_count < max_retries`, then `if retry_count >= max_retries:
\* self.running = False`; Binance doubles reconnect_delay and counts the attempt
ConnBackoffDone ==
    /\ ws_pc = "backoff"
    /\ IF strategy = "binance"
       THEN /\ ws_delay' = Min(ws_delay * 2, max_reconnect_delay)
            /\ retry_count' = retry_count + 1
            /\ ws_pc' = "connecting"
            /\ UNCHANGED running
       ELSE /\ ws_pc' = IF retry_count < max_retries THEN "connecting" ELSE "exit"
            /\ running' = (retry_count < max_retries)
            /\ UNCHANGED <<retry_count, ws_delay>>
    /\ UNCHANGED <<stats, websocket_open, heartbeat_task, connVars>>
    /\ connUnchanged

\* a running collector about to connect for the first time
InitConnSpec ==
    /\ now = 0
    /\ running = TRUE
    /\ stats = [total_requests |-> 0, successful_requests |-> 0,
                failed_requests |-> 0, total_trades_saved |-> 0]
    /\ last_data_time = NoTime
    /\ error_streak = 0
    /\ main_pc = "collect"
    /\ main_timer = 0
    /\ start_exc = "none"
    /\ cycle_result = "none"
    /\ stop_pc = "idle"
    /\ InitTasks /\ InitSink /\ bot_ready
    /\ strategy \in ConnStrategies
    /\ ws_pc = "connecting"
    /\ retry_count = IF strategy = "binance" THEN 1 ELSE 0
    /\ ws_delay = IF strategy = "binance" THEN 1 ELSE 0
    /\ websocket_open = FALSE
    /\ InitQueue /\ InitExt
    /\ horizon = 0

NextConn ==
    \/ \E ok \in BOOLEAN : ConnOpen(ok)
    \/ \E ok \in BOOLEAN : ConnHandshake(ok)
    \/ \E kind \in FrameKinds(strategy), open \in BOOLEAN : ConnFrame(kind, open)
    \/ ConnLost
    \/ ConnBackoffDone

SpecConn == InitConnSpec /\ [][NextConn]_vars

(***************************************************************************)
(* The OHLC collector page by page: _check_last_saved_data, then           *)
(* _collect_currency_data with _fetch_klines, _filter_new_candles and      *)
(* _save_candles, over tables that hold candles.  Times are in seconds     *)
(* and `now` stays at OhlcStart.                                           *)
(***************************************************************************)
MaxPages == 2

OhlcCurrencies == {currency_pairs[i] : i \in 1 .. Len(currency_pairs)}

\* the open_time of the candles the exchange has: 121 minutes, 119 minutes and
\* nothing before OhlcStart
CandleTimes == {OhlcStart - live_window - TimeStep, OhlcStart - live_window + TimeStep,
                OhlcStart}

\* the candles a table can hold when the collector starts
StoredCandles == {OhlcStart - live_window - TimeStep, OhlcStart - live_window + TimeStep}

\* max() of a non-empty set
SetMax(S) == CHOOSE x \in S : \A y \in S : y <= x

\* _filter_new_candles: the candles of the page that are not in the table and
\* that _process_candle accepts
_filter_new_candles(fetched, malformed, table) ==
    {t \in fetched : t \notin table /\ t \notin malformed}

\* `status['last_timestamp'] = max(candle['open_time'] for candle in new_candles)`
AdvanceCursor(cursor, new_candles) == SetMax(new_candles)

pageUnchanged ==
    UNCHANGED <<now, running, last_data_time, error_streak, main_pc, main_timer, start_exc,
                cycle_result, stop_pc, taskVars, sinkVars, wsVars, horizon, queueVars,
                cacheVars, saveVars, page_closed_gap, ohlc_idx, enabled, orchVars,
                pollVars, normVars, convVars, sndVars, tdVars, connVars>>

\* _check_last_saved_data: MAX(open_time) of each table, or earliest_timestamps
\* if the table is empty or the query raised (query_fails)
PageInitCollector(query_fails) ==
    /\ ohlc_pc = "created"
    /\ LET result == [c \in OhlcCurrencies |->
                         IF query_fails[c] \/ candle_table[c] = {} THEN NoTime
                         ELSE SetMax(candle_table[c])]
       IN  /\ last_timestamp' = [c \in OhlcCurrencies |->
                   IF result[c] # NoTime THEN result[c] ELSE earliest_timestamp]
           /\ catching_up' = [c \in OhlcCurrencies |->
                   IF result[c] # NoTime /\ now - result[c] < live_window
                   THEN FALSE ELSE catching_up[c]]
    /\ ohlc_pc' = "cycle"
    /\ UNCHANGED <<stats, page_limit, pageVars>>
    /\ pageUnchanged

\* _fetch_klines answered with HTTP 429 as if the request had been repeated
\* after the sleep and its page returned
retry_after_rate_limit(raised, page) ==
    IF raised = "fetch"
    THEN [raised |-> TRUE, data |-> {}]
    ELSE [raised |-> FALSE, data |-> page]

\* _fetch_klines: the page the exchange holds for the request, or an
\* exception: on status 429 a warning, a sleep of one second and
\* ClientError("Rate limit exceeded"), on any other failure what
\* raise_for_status or the session raised
_fetch_klines(raised, page) ==
    IF raised \in {"fetch", "rate_limit"}
    THEN [raised |-> TRUE, data |-> {}]
    ELSE [raised |-> FALSE, data |-> page]

\* _collect_currency_data as _collect_data runs it.  raised tells where an
\* exception came from, if any: "fetch" and "rate_limit" (_fetch_klines),
\* "filter" (the SELECT of _filter_new_candles), "save" (the acquire of
\* _save_candles); fetched is the page the exchange holds for the request,
\* every candle of it after the cursor (startTime = cursor + 1);
\* malformed are the candles _process_candle returns None for; insert_failed
\* are the candles whose INSERT raises, which _save_candles logs and skips.
PageCollect(c, raised, fetched, malformed, insert_failed) ==
    /\ ohlc_pc = "cycle"
    /\ pages_done < MaxPages
    /\ \A t \in fetched : t > last_timestamp[c]
    /\ malformed \subseteq fetched
    /\ LET response == _fetch_klines(raised, fetched)
           page == response.data
           new_candles == _filter_new_candles(page, malformed, candle_table[c])
           saved == new_candles \ insert_failed
           reached_save == ~response.raised /\ raised # "filter" /\ new_candles # {}
           failed == \/ response.raised
                     \/ raised = "filter" /\ page # {}
                     \/ raised = "save" /\ reached_save
       IN  /\ raised = "fetch" => fetched = {}
           /\ insert_failed \subseteq new_candles
           /\ insert_failed # {} => ~failed
           /\ IF failed
              THEN /\ stats' = [stats EXCEPT !.total_requests = @ + 1,
                                             !.failed_requests = @ + 2]
                   /\ UNCHANGED <<last_timestamp, catching_up, candle_table>>
              ELSE /\ raised \notin {"filter", "save"}
                   /\ stats' = [stats EXCEPT !.total_requests = @ + 1,
                                             !.successful_requests = @ + 1,
                                             !.total_trades_saved = @ + Cardinality(saved)]
                   /\ candle_table' = [candle_table EXCEPT ![c] = @ \cup saved]
                   /\ IF new_candles = {}
                      THEN UNCHANGED <<last_timestamp, catching_up>>
                      ELSE LET cursor == AdvanceCursor(last_timestamp[c], new_candles)
                           IN  /\ last_timestamp' = [last_timestamp EXCEPT ![c] = cursor]
                               /\ catching_up' = [catching_up EXCEPT ![c] =
                                      ModeAfterPage(@, now - cursor)]
           /\ last_page' = [currency |-> c, before |-> last_timestamp[c],
                            was_catching |-> catching_up[c], fetched |-> page,
                            new_candles |-> IF failed THEN {} ELSE new_candles,
                            insert_failed |-> insert_failed,
                            rate_limited |-> raised = "rate_limit",
                            outcome |-> IF failed THEN "raised" ELSE "ok"]
    /\ page_limit' = [page_limit EXCEPT ![c] = PageLimit(catching_up[c])]
    /\ pages_done' = pages_done + 1
    /\ UNCHANGED ohlc_pc
    /\ pageUnchanged

\* a collector constructed over tables that may hold candles already
InitPageSpec ==
    /\ now = OhlcStart
    /\ running = TRUE
    /\ stats = [total_requests |-> 0, successful_requests |-> 0,
                failed_requests |-> 0, total_trades_saved |-> 0]
    /\ last_data_time = NoTime
    /\ error_streak = 0
    /\ main_pc = "collect"
    /\ main_timer = 0
    /\ start_exc = "none"
    /\ cycle_result = "none"
    /\ stop_pc = "idle"
    /\ InitTasks /\ InitSink /\ InitWS /\ InitQueue
    /\ InitCache /\ InitSave /\ InitOhlc /\ enabled = {} /\ InitOrchestrator /\ InitPoll
    /\ InitNorm /\ InitConv /\ InitSnd /\ InitTeardown /\ InitConn
    /\ candle_table \in [OhlcCurrencies -> SUBSET StoredCandles]
    /\ last_page = NoPage
    /\ pages_done = 0
    /\ bot_ready
    /\ strategy = "ohlc"
    /\ horizon = 0

NextPage ==
    \/ \E query_fails \in [OhlcCurrencies -> BOOLEAN] : PageInitCollector(query_fails)
    \/ \E c \in OhlcCurrencies, raised \in {"none", "fetch", "rate_limit", "filter", "save"},
          fetched \in SUBSET CandleTimes :
          \E malformed \in {{}} \cup {{t} : t \in fetched}, insert_failed \in SUBSET fetched :
              PageCollect(c, raised, fetched, malformed, insert_failed)

SpecPage == InitPageSpec /\ [][NextPage]_vars

(***************************************************************************)
(* The collectors with a dedup cache, persist and cache together: one      *)
(* partition (one currency, one trade table) of the Binance or the Bybit   *)
(* collector.  The table is row_count, the cache of the partition is       *)
(* processed_trade_ids[DedupPartition]; the table may hold rows when the   *)
(* collector is constructed.                                               *)
(***************************************************************************)
DedupStrategies == {"binance", "bybit"}
DedupPartition == "BTC"

dedupUnchanged ==
    UNCHANGED <<now, running, last_data_time, error_streak, main_timer, start_exc,
                cycle_result, stop_pc, taskVars, sinkVars, wsVars, horizon, stop_event,
                trade_queue, unfinished, proc_pc, proc_item, stream_pc, reconnect_delay,
                stream_faults, trade_table, db_log, enq_log, orch_pc, db_closed, cacheVars,
                ohlcVars, enabled, orchVars, pollVars, normVars, convVars, lateVars>>

\* _load_last_trade_ids: the trade ids of the table (the newest 1000 of them),
\* or the empty set if the query raised
_load_last_trade_ids(rows, query_fails) ==
    IF query_fails THEN {} ELSE {k \in SaveKeys : rows[k] > 0}

DedupInit(query_fails) ==
    /\ main_pc = "created"
    /\ main_pc' = "initialized"
    /\ processed_trade_ids' = [processed_trade_ids EXCEPT
           ![DedupPartition] = _load_last_trade_ids(row_count, query_fails)]
    /\ UNCHANGED <<stats, saveVars>>
    /\ dedupUnchanged

\* BinanceCollector._process_single_trade from the cache test on: a trade whose
\* id is cached is dropped; another goes to save_trades, and only when that
\* returns is its id added to the cache and _cleanup_cache run
BinanceProcessTrade(trade, db_fail) ==
    /\ strategy = "binance"
    /\ main_pc = "initialized"
    /\ trade.trade_id \notin processed_trade_ids[DedupPartition]
    /\ Submitted(submissions, <<trade>>)[trade.trade_id] <= MaxSubmissions
    /\ submissions' = Submitted(submissions, <<trade>>)
    /\ LET res == save_trades(row_count, <<trade>>, db_fail, strategy)
       IN  /\ row_count' = res.rows
           /\ save_exc' = res.exc
           /\ dup_key_error' = (dup_key_error \/ res.violation)
           /\ IF res.exc = "none"
              THEN /\ \E cache \in _cleanup_cache(processed_trade_ids[DedupPartition]
                                                      \cup {trade.trade_id}, max_cache_size) :
                          processed_trade_ids' =
                              [processed_trade_ids EXCEPT ![DedupPartition] = cache]
                   /\ stats' = [stats EXCEPT !.total_trades_saved = @ + res.saved,
                                             !.successful_requests = @ + 1]
              ELSE /\ stats' = [stats EXCEPT !.failed_requests = @ + 1]
                   /\ UNCHANGED processed_trade_ids
    /\ UNCHANGED main_pc
    /\ dedupUnchanged

\* BybitCollector._filter_new_trades: the trades whose id is not cached
_filter_new_trades(trades, cached_ids) ==
    SelectSeq(trades, LAMBDA t : t.trade_id \notin cached_ids)

\* BybitCollector._collect_data for one currency whose fetch returned trades:
\* the new ones go to save_trades, and when that returns _update_cache adds
\* their ids and the batch is counted once more
BybitCollectCurrency(trades, db_fail) ==
    /\ strategy = "bybit"
    /\ main_pc = "initialized"
    /\ LET new_trades == _filter_new_trades(trades, processed_trade_ids[DedupPartition])
           res == save_trades(row_count, new_trades, db_fail, strategy)
           ids == {new_trades[i].trade_id : i \in 1 .. Len(new_trades)}
       IN  /\ new_trades # <<>>
           /\ db_fail <= Len(new_trades)
           /\ \A k \in SaveKeys : Submitted(submissions, new_trades)[k] <= MaxSubmissions
           /\ submissions' = Submitted(submissions, new_trades)
           /\ row_count' = res.rows
           /\ save_exc' = res.exc
           /\ dup_key_error' = (dup_key_error \/ res.violation)
           /\ IF res.exc = "none"
              THEN /\ \E cache \in _update_cache(processed_trade_ids[DedupPartition],
                                                 max_cache_size, ids) :
                          processed_trade_ids' =
                              [processed_trade_ids EXCEPT ![DedupPartition] = cache]
                   /\ stats' = [stats EXCEPT
                                   !.total_requests = @ + 1,
                                   !.total_trades_saved = @ + res.saved + Len(new_trades),
                                   !.successful_requests = @ + 1]
              ELSE /\ stats' = [stats EXCEPT !.total_requests = @ + 1,
                                             !.failed_requests = @ + 1]
                   /\ UNCHANGED processed_trade_ids
    /\ UNCHANGED main_pc
    /\ dedupUnchanged

InitDedupSpec ==
    /\ InitCore /\ InitTasks /\ InitSink /\ InitWS /\ InitQueue
    /\ bot_ready
    /\ strategy \in DedupStrategies
    /\ horizon = 0
    /\ max_cache_size = IF strategy = "bybit" THEN bybit_max_cache_size
                        ELSE binance_max_cache_size
    /\ last_recorded = [u \in underlying_assets |-> 0]
    /\ size_before_cleanup = [u \in underlying_assets |-> 0]
    /\ row_count \in [SaveKeys -> {0, 1}]
    /\ submissions = [k \in SaveKeys |-> 0]
    /\ save_exc = "none"
    /\ dup_key_error = FALSE
    /\ InitOhlc /\ enabled = {} /\ InitOrchestrator /\ InitPoll /\ InitNorm
    /\ InitConv /\ InitLate

NextDedup ==
    \/ \E query_fails \in BOOLEAN : DedupInit(query_fails)
    \/ \E trade \in SaveTradesOf, db_fail \in 0 .. 1 : BinanceProcessTrade(trade, db_fail)
    \/ \E trades \in SaveBatches, db_fail \in 0 .. MaxBatch :
           BybitCollectCurrency(trades, db_fail)

SpecDedup == InitDedupSpec /\ [][NextDedup]_vars

(***************************************************************************)
(* The OHLC collector against an exchange that answers as asked: it holds  *)
(* one candle per hour, MaxCandles of them up to now, and a request        *)
(* returns the first candles with open_time greater than the cursor, as    *)
(* many as the request's limit allows.  The table holds a prefix of them   *)
(* when the collector starts.  The clock stands still: a later clock adds  *)
(* candles at the far end only.                                            *)
(***************************************************************************)
MaxCandles == 4          \* the candles the exchange has
PageCap == 2             \* 'limit': min(limit, 1000), with pages of the model's size
MaxCount == 3            \* the request counters stop counting here
candle_interval == 3600  \* self.interval = "1h"

CandlesUpTo(k) == {i * candle_interval : i \in 1 .. k}
BackfillStored == 0 .. MaxCandles

\* the answer of the exchange to startTime = cursor + 1 with the given limit
ExchangePage(cursor, limit) ==
    LET first == cursor \div candle_interval + 1
        count == Min(limit, PageCap)
    IN  {i * candle_interval : i \in first .. Min(first + count - 1, MaxCandles)}

Counted(n) == Min(n + 1, MaxCount)

\* _collect_currency_data as _collect_data runs it, with the page the exchange
\* returns; the fetch may raise, the database does not
BackfillCollect(c, raised) ==
    /\ ohlc_pc = "cycle"
    /\ LET limit == PageLimit(catching_up[c])
           response == _fetch_klines(raised, ExchangePage(last_timestamp[c], limit))
           page == response.data
           new_candles == _filter_new_candles(page, {}, candle_table[c])
       IN  /\ page_limit' = [page_limit EXCEPT ![c] = limit]
           /\ IF response.raised
              THEN /\ stats' = [stats EXCEPT
                                   !.total_requests = Counted(@),
                                   !.failed_requests = Counted(Counted(@))]
                   /\ UNCHANGED <<last_timestamp, catching_up, candle_table>>
              ELSE /\ stats' = [stats EXCEPT
                                   !.total_requests = Counted(@),
                                   !.successful_requests = Counted(@),
                                   !.total_trades_saved =
                                       Min(@ + Cardinality(new_candles), MaxCandles)]
                   /\ candle_table' = [candle_table EXCEPT ![c] = @ \cup new_candles]
                   /\ IF new_candles = {}
                      THEN UNCHANGED <<last_timestamp, catching_up>>
                      ELSE LET cursor == AdvanceCursor(last_timestamp[c], new_candles)
                           IN  /\ last_timestamp' = [last_timestamp EXCEPT ![c] = cursor]
                               /\ catching_up' = [catching_up EXCEPT ![c] =
                                      ModeAfterPage(@, now - cursor)]
           /\ last_page' = [currency |-> c, before |-> last_timestamp[c],
                            was_catching |-> catching_up[c], fetched |-> page,
                            new_candles |-> new_candles, insert_failed |-> {},
                            rate_limited |-> raised = "rate_limit",
                            outcome |-> IF response.raised THEN "raised" ELSE "ok"]
    /\ UNCHANGED <<ohlc_pc, pages_done>>
    /\ pageUnchanged

InitBackfillSpec ==
    /\ now = MaxCandles * candle_interval + TimeStep
    /\ running = TRUE
    /\ stats = [total_requests |-> 0, successful_requests |-> 0,
                failed_requests |-> 0, total_trades_saved |-> 0]
    /\ last_data_time = NoTime
    /\ error_streak = 0
    /\ main_pc = "collect"
    /\ main_timer = 0
    /\ start_exc = "none"
    /\ cycle_result = "none"
    /\ stop_pc = "idle"
    /\ InitTasks /\ InitSink /\ InitWS /\ InitQueue
    /\ InitCache /\ InitSave /\ InitOhlc /\ enabled = {} /\ InitOrchestrator /\ InitPoll
    /\ InitNorm /\ InitConv /\ InitSnd /\ InitTeardown /\ InitConn
    /\ candle_table \in [OhlcCurrencies -> {CandlesUpTo(k) : k \in BackfillStored}]
    /\ last_page = NoPage
    /\ pages_done = 0
    /\ bot_ready
    /\ strategy = "ohlc"
    /\ horizon = 0

BackfillFails ==
    \E c \in OhlcCurrencies, raised \in {"fetch", "rate_limit"} : BackfillCollect(c, raised)

NextBackfill ==
    \/ \E query_fails \in [OhlcCurrencies -> BOOLEAN] : PageInitCollector(query_fails)
    \/ \E c \in OhlcCurrencies : BackfillCollect(c, "none")
    \/ BackfillFails

SpecBackfill == InitBackfillSpec /\ [][NextBackfill]_vars

\* init() returns, and for every symbol a fetch succeeds in the end
FairSpecBackfill ==
    /\ SpecBackfill
    /\ WF_vars(\E query_fails \in [OhlcCurrencies -> BOOLEAN] : PageInitCollector(query_fails))
    /\ \A c \in OhlcCurrencies : WF_vars(BackfillCollect(c, "none"))

(***************************************************************************)
(* Properties of the collector core and the alerting sink.                 *)
(***************************************************************************)
MessageKind(entry) == entry.key[3][1]
ConnErrorsSent == {s \in sent_messages : MessageKind(s) = "connection_error"}

\* C1: once start() runs its loop, the loop goes on after failed cycles and
\* after an exhausted retry budget of the strategy: it is left only after
\* stop() has been called on the collector.
C1_LoopEndsOnlyOnStop ==
    main_pc \in {"finally", "returned", "raised"} => stop_pc # "idle"

\* C2: every exception raised inside a collection cycle is caught by the run
\* loop and becomes failed_requests + 1 and error streak + 1; whatever the
\* statistics counters are, start() neither raises nor returns because of it
\* (it returns only once running is False).
C2_ExceptionContained ==
    /\ start_exc = "none"
    /\ main_pc # "raised"
    /\ main_pc \in {"finally", "returned"} => ~running
    /\ cycle_result = "failed" /\ main_pc # "collect" =>
           error_streak >= 1 /\ stats.failed_requests >= error_streak

\* C3: with a cooldown of 300 s the fifth consecutive failed cycle delivers a
\* connection-error alert, and further failed cycles deliver no other one until
\* the cooldown has expired, whatever error messages the failures carry: two
\* connection-error alerts of a collector are never less than 300 s apart.
C3_OneAlertPerCooldown ==
    /\ ( /\ bot_ready
         /\ cycle_result = "failed"
         /\ main_pc = "sleep" /\ main_timer = collection_interval
         /\ error_streak >= streak_threshold )
       => \E s \in ConnErrorsSent : now - s.time < alert_cooldown
    /\ \A s1, s2 \in ConnErrorsSent :
           s1.time < s2.time => s2.time - s1.time >= alert_cooldown

\* C4: a notification is not sent within alert_cooldown seconds of the last one
\* sent with the same key: any two sent notifications with the same key are at
\* least alert_cooldown seconds apart.
C4_CooldownSpacing ==
    \A s1, s2 \in sent_messages :
        s1.key = s2.key /\ s1.time < s2.time => s2.time - s1.time >= alert_cooldown

\* a key was sent, suppressed inside its cooldown, and sent again after it
C4_Witness ==
    /\ error_streak > streak_threshold
    /\ \E s1, s2 \in sent_messages :
           /\ s1.key = s2.key /\ s1.time < s2.time
           /\ s2.time - s1.time >= alert_cooldown

\* C5: after a failed cycle with total_requests > 20 and failed_requests /
\* total_requests > 0.5 a high-error-rate alert has been sent within the
\* cooldown, and no such alert is sent while total_requests <= 20.
C5_HighErrorRateAlert ==
    /\ ( /\ bot_ready
         /\ cycle_result = "failed" /\ main_pc # "collect"
         /\ HighErrorRate(stats) )
       => \E s \in sent_messages :
              MessageKind(s) = "high_error_rate" /\ now - s.time < alert_cooldown
    /\ stats.total_requests <= rate_min_requests
       => \A s \in sent_messages : MessageKind(s) # "high_error_rate"

\* C6: while the collector is running, a monitor tick that finds the last
\* successful collection more than 10 minutes back sends a no-data alert.
C6_NoDataAlert ==
    (bot_ready /\ stop_pc = "idle" /\ stale_ticks > 0)
    => \E s \in sent_messages : MessageKind(s) = "no_data"

\* C7: when stop() has returned, the status reporter and the stale-data monitor
\* have been cancelled and have ended.
C7_StopEndsTasks ==
    stop_pc = "returned" =>
        status_pc \in {"none", "done"} /\ monitor_pc \in {"none", "done"}

(***************************************************************************)
(* Properties of the queue-based strategy and of shutdown.                 *)
(***************************************************************************)
\* C8: under fair scheduling a call of the collector's stop() eventually
\* returns, and the orchestrator's stop() that made it eventually ends,
\* whatever the sockets and the trade queue were doing when it was called.
C8_StopReturns ==
    /\ (stop_pc # "idle") ~> (stop_pc = "returned")
    /\ (orch_pc = "stopping") ~> (orch_pc # "stopping")

\* C9: when the processor task has ended, every item put on the trade queue
\* has been taken off it and processed: the queue is empty and no item is
\* unfinished.
C9_QueueDrained ==
    proc_pc = "cancelled" => trade_queue = <<>> /\ unfinished = 0

NaturalKey(item) == <<item[2], item[1].t>>
EnqueuedKeys == [i \in 1 .. Len(enq_log) |-> NaturalKey(enq_log[i])]
DistinctKeys ==
    \A i, j \in 1 .. Len(enq_log) : EnqueuedKeys[i] = EnqueuedKeys[j] => i = j
EnqueuePosition(key) == CHOOSE i \in 1 .. Len(enq_log) : EnqueuedKeys[i] = key

\* C10: when the items put on the queue have distinct natural keys, the rows
\* reach the database in the order the items were put on the queue: every row
\* belongs to an enqueued item, and a row written later belongs to an item
\* enqueued later.
C10_FifoPersistence ==
    DistinctKeys =>
        /\ \A i \in 1 .. Len(db_log) :
               \E j \in 1 .. Len(enq_log) : EnqueuedKeys[j] = db_log[i]
        /\ \A i, j \in 1 .. Len(db_log) :
               i < j => EnqueuePosition(db_log[i]) < EnqueuePosition(db_log[j])

\* A, B, C with distinct keys were enqueued, A's processing failed, and B and C,
\* of different underlyings, were written in that order
C10_Witness ==
    /\ Len(enq_log) = 3 /\ DistinctKeys
    /\ \A i \in 1 .. 3 : Complete(enq_log[i][1])
    /\ stats.failed_requests >= 1
    /\ db_log = <<EnqueuedKeys[2], EnqueuedKeys[3]>>
    /\ EnqueuedKeys[2][1] # EnqueuedKeys[3][1]

(***************************************************************************)
(* Properties of the dedup caches.                                         *)
(***************************************************************************)
\* C11: in every partition of every dedup cache the size is at most the
\* capacity after a record operation, and a record operation that took the
\* size over the capacity has left exactly 0.8 x capacity keys.
C11_EvictionToFourFifths ==
    \A u \in underlying_assets :
        /\ Cardinality(processed_trade_ids[u]) <= max_cache_size
        /\ size_before_cleanup[u] > max_cache_size =>
               10 * Cardinality(processed_trade_ids[u]) = 8 * max_cache_size

\* C12: after a record operation, also one that evicts, the key recorded last
\* is in the cache of its partition.
C12_NewestKeyKept ==
    \A u \in underlying_assets :
        last_recorded[u] # 0 => last_recorded[u] \in processed_trade_ids[u]

(***************************************************************************)
(* Properties of save_trades.                                              *)
(***************************************************************************)
\* C13: however often trades with one trade_id are handed to save_trades, in
\* one batch or in several, the table holds at most one row with that trade_id
\* and no INSERT fails on the duplicate key.
C13_AtMostOneRow ==
    /\ \A k \in SaveKeys : row_count[k] <= 1
    /\ ~dup_key_error

\* the OKX collector was handed one trade_id three times and stored it once
C13_Witness ==
    /\ strategy = "okx"
    /\ \E k \in SaveKeys : submissions[k] >= 3 /\ row_count[k] = 1
    /\ save_exc = "none"

(***************************************************************************)
(* Properties of the WebSocket retry loop.                                 *)
(***************************************************************************)
\* C14: the delay slept after the n-th consecutive failure of a WebSocket
\* strategy is 2^(n-1) seconds capped at 60 (1, 2, 4, 8, 16, 32, 60, ...), the
\* count of consecutive failures starting again at 1 after a successful
\* connection.
C14_DoublingBackoff ==
    strategy \in WebSocketStrategies /\ ws_pc = "backoff" =>
        ws_delay = Min(2 ^ (retry_count - 1), 60)

\* C15: a WebSocket strategy that has failed max_retries times in a row ends
\* its cycle as a failed one: the run loop has counted the failure into
\* failed_requests and the error streak; the cycle is not a success.
C15_ExhaustionIsFailure ==
    strategy \in WebSocketStrategies /\ retry_count >= max_retries
            /\ main_pc \notin {"collect", "created", "initialized"} =>
        /\ cycle_result = "failed"
        /\ error_streak >= 1
        /\ stats.failed_requests >= 1

(***************************************************************************)
(* Properties of the OHLC collector.                                       *)
(***************************************************************************)
\* C16: a currency is in Live mode only after a fetched page has brought
\* now - max(open_time) below two hours: without such a page a currency whose
\* last timestamp is 119 minutes behind is in Catching-up mode, and a currency
\* whose last timestamp is two hours or more behind (121 minutes) is in
\* Catching-up mode in any case.
C16_LiveOnlyAfterPage ==
    ohlc_pc # "created" =>
        \A i \in 1 .. Len(currency_pairs) :
            LET c == currency_pairs[i]
            IN  /\ ~catching_up[c] => page_closed_gap[c]
                /\ now - last_timestamp[c] >= live_window => catching_up[c]

(***************************************************************************)
(* Properties of the orchestrator.                                         *)
(***************************************************************************)
\* C17: once the run loop of a collector has ended with an error while the
\* orchestrator was running, stop() gets called on every registered collector
\* and no registered collector is in its run loop any more.
C17_ErrorStopsAll ==
    task_error ~> (\A c \in Registered : stop_called[c] /\ ~InRunLoop(c))

\* C18: no collector task reads or writes the Persistence Gateway after it was
\* closed, nor sends a notification after the Alerting Sink was closed.
C18_NoIoAfterClose == ~late_io

\* C19: when init() of an enabled collector has failed, every other enabled
\* collector is initialized and registered all the same, and once main() is
\* past the start of the collectors it has been started.
C19_InitFailureIsolated ==
    init_failed # "none" /\ init_idx > Len(CollectorOrder) =>
        \A c \in enabled \ {init_failed} :
            /\ c \in Registered
            /\ app_pc # "init" => col_pc[c] # "initialized"

(***************************************************************************)
(* Properties of the polling collectors.                                   *)
(***************************************************************************)
\* C20: in a polling cycle each currency whose fetch or save raised has added
\* one to failed_requests, and when the cycle is over every currency of
\* currency_pairs has been fetched, whichever of them failed.
C20_GroupFailureIsolated ==
    /\ stats.failed_requests = failed_at_start + Cardinality(poll_failed)
    /\ poll_failed \subseteq attempted
    /\ poll_pc = "sleep" => attempted = Groups

\* a cycle is over in which the first currency failed and the second one was
\* fetched and saved
C20_Witness ==
    /\ poll_pc = "sleep"
    /\ poll_failed = {currency_pairs[1]}
    /\ currency_pairs[2] \in attempted
    /\ stats.successful_requests >= 1
    /\ stats.failed_requests = failed_at_start + 1

(***************************************************************************)
(* Properties of the normalizers.                                          *)
(***************************************************************************)
\* C21: whatever the exchange, a payload whose price cannot be parsed while
\* its trade id, its instrument name and its other fields are valid is
\* normalized to one record, with price None.
C21_BadPriceKeepsRecord ==
    norm_exchange # "none"
            /\ norm_payload = [trade_id |-> "ok", price |-> "bad", size |-> "ok",
                               instrument |-> "ok", ts |-> "ok", iv |-> "ok"] =>
        /\ Len(norm_record) = 1
        /\ norm_record[1].price = "None"

\* C22: whatever the exchange, a payload without trade id gives no record:
\* nothing is handed to save_trades and nothing is added to the dedup cache.
C22_NoTradeIdNoRecord ==
    norm_exchange # "none" /\ norm_payload.trade_id = "absent" =>
        /\ norm_record = <<>>
        /\ ~norm_saved
        /\ ~norm_cached

(***************************************************************************)
(* Properties of the instrument-name conversion.                           *)
(***************************************************************************)
\* C23: a five-token name CUR-QUOTE-YYMMDD-STRIKE-TYPE whose date code is a
\* date of the calendar is converted to CUR-DDMONYY-STRIKE-TYPE: the same
\* currency, strike and type, the day, the month by its three letters, the
\* two-digit year.
C23_CanonicalName ==
    conv_done /\ conv_in.tokens = 5 /\ conv_in.mm \in 1 .. 12
            /\ conv_in.dd \in 1 .. DaysInMonth(FullYear(conv_in.yy), conv_in.mm) =>
        /\ conv_out.converted
        /\ conv_out.currency = conv_in.currency
        /\ conv_out.strike = conv_in.strike
        /\ conv_out.type = conv_in.type
        /\ conv_out.day = conv_in.dd
        /\ conv_out.year = conv_in.yy
        /\ conv_out.mon = MonthAbbr[conv_in.mm]

\* BTC-USD-240329-60000-C has become BTC-29MAR24-60000-C
C23_Witness ==
    /\ conv_done
    /\ conv_in = [tokens |-> 5, currency |-> "BTC", quote |-> "USD", yy |-> 24, mm |-> 3,
                  dd |-> 29, strike |-> "60000", type |-> "C"]
    /\ conv_out = [converted |-> TRUE, currency |-> "BTC", day |-> 29, mon |-> "MAR",
                   year |-> 24, strike |-> "60000", type |-> "C"]

(***************************************************************************)
(* Properties of the alerting sink under concurrent callers.               *)
(***************************************************************************)
AttemptsBefore(i) == {j \in 1..i : /\ attempts[j].key = attempts[i].key
                                   /\ attempts[i].time - attempts[j].time < alert_cooldown}

\* C24: of the notification attempts with one dedup key that fall in one
\* cooldown window, whichever tasks make them and whether or not an earlier
\* one is still suspended in bot.send_message, exactly one passes the cooldown
\* test and is handed to the Bot API: every attempt has exactly one passed
\* attempt of its key in the cooldown before it, itself included.
C24_OnePassesPerWindow ==
    \A i \in DOMAIN attempts :
        Cardinality({j \in AttemptsBefore(i) : Passed(attempts[j])}) = 1

\* two tasks attempted the same key at the same time, the first is still
\* suspended in send_message, the second was suppressed
C24_Witness ==
    \E i, j \in DOMAIN attempts :
        /\ i < j
        /\ attempts[i].task # attempts[j].task
        /\ attempts[i].key = attempts[j].key
        /\ attempts[i].time = attempts[j].time
        /\ attempts[i].outcome = "in flight"
        /\ snd_pc[attempts[i].task] = "sending"
        /\ attempts[j].outcome = "suppressed"
        /\ Cardinality({s \in sent_messages : s.key = attempts[i].key}) = 1

(***************************************************************************)
(* Properties of the strategies' stop().                                   *)
(***************************************************************************)
\* C25: when a teardown step of stop() fails (an unsubscribe send, the socket
\* close, the session close), the failure is logged and not raised: stop()
\* ends with the collector stopped and the 'collector stopped' notification
\* sent.
C25_TeardownFailureContained ==
    (td_pc \in StopEnded /\ td_failed # {})
        => /\ td_pc = "stopped"
           /\ ~running
           /\ td_failed \subseteq td_log
           /\ bot_ready => \E s \in sent_messages : MessageKind(s) = "collector_stopped"

\* C26: the reconnect retry count counts consecutive failed attempts only: a
\* connection that has been established has reset it, so while a receive loop
\* runs on an open socket the count is zero.
C26_EstablishedResets ==
    (ws_pc = "streaming" /\ websocket_open) => retry_count = 0

(***************************************************************************)
(* Properties of a WebSocket connection, frame by frame.                   *)
(***************************************************************************)
DeribitHandshake ==
    <<[method |-> "public/set_heartbeat", interval |-> 30, channel |-> ""],
      [method |-> "public/subscribe", interval |-> 0, channel |-> "BTC"],
      [method |-> "public/subscribe", interval |-> 0, channel |-> "ETH"]>>

IsHandshakeMessage(m) == m.method \in {"public/set_heartbeat", "public/subscribe"}

\* C27: on every connection of the Deribit collector what has been sent so
\* far starts with the heartbeat setup (interval 30) followed by one
\* subscribe per currency in turn, nothing else is sent before these, none of
\* them is sent twice, and no inbound frame has been processed before all of
\* them were sent.
C27_HandshakeBeforeFrames ==
    strategy = "deribit" =>
        LET n == Min(Len(outbox), Len(DeribitHandshake))
        IN  /\ SubSeq(outbox, 1, n) = SubSeq(DeribitHandshake, 1, n)
            /\ \A i \in DOMAIN outbox :
                   i > Len(DeribitHandshake) => ~IsHandshakeMessage(outbox[i])
            /\ frame_log # <<>> => Len(outbox) >= Len(DeribitHandshake)
            /\ ws_pc = "streaming" => Len(outbox) >= Len(DeribitHandshake)

\* the second connection of a Deribit collector has sent its three messages
\* and processed a frame
C27_Witness ==
    /\ strategy = "deribit"
    /\ conn_no = 2
    /\ Len(outbox) = 3
    /\ Len(frame_log) = 1
    /\ frame_log[1].kind = "subscription"

RECURSIVE RepliesDue(_)
RepliesDue(log) ==
    IF log = <<>> THEN <<>>
    ELSE (IF Head(log).kind = "test_request" /\ Head(log).open
          THEN <<[method |-> "public/test", interval |-> 0, channel |-> ""]>>
          ELSE <<>>) \o RepliesDue(Tail(log))

\* C28: on a Deribit connection every test_request frame processed while the
\* socket is open has put exactly one public/test reply on that connection
\* before the next frame was processed, and no other frame (heartbeat
\* keepalive, acknowledgement or any other) has sent anything: after the
\* handshake the connection's sends are the replies due, frame by frame.
C28_OneReplyPerTestRequest ==
    (strategy = "deribit" /\ ws_pc = "streaming") =>
        /\ SubSeq(outbox, Len(DeribitHandshake) + 1, Len(outbox)) = RepliesDue(frame_log)
        /\ \A i \in DOMAIN frame_log :
               frame_log[i].sends = IF frame_log[i].kind = "test_request" /\ frame_log[i].open
                                    THEN 1 ELSE 0

\* a test_request and then a keepalive were processed: one reply was sent
C28_Witness ==
    /\ strategy = "deribit"
    /\ ws_pc = "streaming"
    /\ websocket_open
    /\ Len(frame_log) = 2
    /\ frame_log[1].kind = "test_request"
    /\ frame_log[2].kind = "heartbeat"
    /\ Len(outbox) = Len(DeribitHandshake) + 1
    /\ outbox[Len(outbox)].method = "public/test"

\* C29: processing a malformed, unexpected or error frame leaves the receive
\* loop on the same open connection, ready for the next frame, with the
\* retry count and the reconnect delay as they were.
C29_BadFrameOnlyDropped ==
    [][(/\ Len(frame_log') = Len(frame_log) + 1
        /\ frame_log'[Len(frame_log')].kind \in BadFrames)
       => /\ ws_pc' = "streaming"
          /\ websocket_open'
          /\ conn_no' = conn_no
          /\ retry_count' = retry_count
          /\ ws_delay' = ws_delay
          /\ SubSeq(frame_log', 1, Len(frame_log)) = frame_log]_vars

\* after a malformed frame the same connection delivered a data frame
C29_Witness ==
    /\ ws_pc = "streaming"
    /\ websocket_open
    /\ Len(frame_log) = 2
    /\ frame_log[1].kind = "malformed"
    /\ frame_log[2].kind \in {"subscription", "data", "trade"}
    /\ stats.successful_requests + (IF strategy = "binance" THEN 1 ELSE 0) = 1

(***************************************************************************)
(* Properties of the OHLC collector, page by page.                         *)
(***************************************************************************)
PageFailed(p) == p.outcome = "raised" \/ p.insert_failed # {}
PagePersisted(p) ==
    /\ p.outcome = "ok"
    /\ p.fetched # {}
    /\ p.insert_failed = {}
    /\ p.fetched \subseteq candle_table[p.currency]

\* C30: after a page that was fetched and persisted (the run ended normally,
\* no insert failed and every candle of the page is in the table) the
\* currency's cursor is the largest open_time of the page, in either mode;
\* the cursor is never less than before the run; and after a run that failed
\* (it raised, or an insert failed) the cursor is what it was.
C30_CursorFollowsPage ==
    last_page.outcome # "none" =>
        LET c == last_page.currency
        IN  /\ PagePersisted(last_page) => last_timestamp[c] = SetMax(last_page.fetched)
            /\ last_timestamp[c] >= last_page.before
            /\ PageFailed(last_page) => last_timestamp[c] = last_page.before

\* every candle of the page was new and well formed and this run wrote it
PageWritten(p) ==
    /\ p.outcome = "ok"
    /\ p.fetched # {}
    /\ p.new_candles = p.fetched
    /\ p.insert_failed = {}

C32_NoRunningAfterStop == stop_pc = "returned" => ~running


(***************************************************************************)
(* C33: a persistence write that fails during a cycle is surfaced as an    *)
(* alert: whenever the last save_trades ended in an exception, a database  *)
(* error message has been handed to the alerting sink (which is ready).    *)
(***************************************************************************)
C33_WriteFailureAlerted ==
    (save_exc # "none" /\ bot_ready)
       => \E s \in sent_messages : MessageKind(s) = "database_error"


(***************************************************************************)
(* C34: a request answered with HTTP 429 changes neither the cursor nor    *)
(* the mode of any symbol, and the next request for the same symbol is the *)
(* same request: same start time (the cursor it is taken from), same page  *)
(* size.                                                                   *)
(***************************************************************************)
C34_RateLimitKeepsRequest ==
    [][/\ (pages_done' = pages_done + 1 /\ last_page'.rate_limited)
             => /\ last_timestamp' = last_timestamp
                /\ catching_up' = catching_up
       /\ (pages_done' = pages_done + 1 /\ last_page.rate_limited
              /\ last_page'.currency = last_page.currency)
             => /\ last_page'.before = last_page.before
                /\ page_limit'[last_page.currency] = page_limit[last_page.currency]]_vars

\* a page was collected, and the next request was answered with 429
C34_Witness ==
    /\ last_page.rate_limited
    /\ pages_done = 2
    /\ stats.successful_requests = 1
    /\ last_page.before > earliest_timestamp


(***************************************************************************)
(* C35: the request counters are consistent in every state: no more        *)
(* failures than requests, and successes and failures together no more     *)
(* than requests.                                                          *)
(***************************************************************************)
C35_CountersConsistent ==
    /\ stats.failed_requests <= stats.total_requests
    /\ stats.successful_requests + stats.failed_requests <= stats.total_requests


(***************************************************************************)
(* C36: total_trades_saved is the number of rows the collector inserted:   *)
(* in every state it equals the number of rows of the trade table, which   *)
(* was empty when the collector was constructed.                           *)
(***************************************************************************)
RECURSIVE RowsInserted(_)
RowsInserted(k) == IF k = 0 THEN 0 ELSE row_count[k] + RowsInserted(k - 1)

C36_SavedCountsRows == stats.total_trades_saved = RowsInserted(MaxSaveKey)


(***************************************************************************)
(* C37: a trade id is in the dedup cache of a partition only if the table  *)
(* of the partition holds a row with that id.                              *)
(***************************************************************************)
C37_CachedOnlyIfStored ==
    \A k \in processed_trade_ids[DedupPartition] : row_count[k] > 0


(***************************************************************************)
(* C38: once stop() has been invoked on a WebSocket collector no new       *)
(* connection is opened, and when stop() has returned no connection of the *)
(* collector is open.                                                      *)
(***************************************************************************)
C38_NoSocketAfterStop ==
    [][/\ stop_pc # "idle" => (websocket_open' => websocket_open)
       /\ stop_pc' = "returned" => ~websocket_open']_vars


(***************************************************************************)
(* C39: with an exchange that returns the candles after the cursor and a   *)
(* fetch that succeeds in the end, every symbol reaches Live mode, from    *)
(* every initial cursor.                                                   *)
(***************************************************************************)
C39_EventuallyLive == \A c \in OhlcCurrencies : <>(~catching_up[c])


(***************************************************************************)
(* C40: a symbol that is in Live mode stays in Live mode: no step takes it *)
(* back to Catching-up, whatever page is fetched and however far the       *)
(* cursor is behind the clock.                                             *)
(***************************************************************************)
C40_LiveIsFinal ==
    [][\A c \in OhlcCurrencies : ~catching_up[c] => ~catching_up'[c]]_vars

\* a Live symbol whose cursor is two hours or more behind the clock, after a
\* page that moved the cursor
C40_Witness ==
    /\ ohlc_pc = "cycle"
    /\ ohlc_idx = 2
    /\ ~catching_up["BTC"]
    /\ page_limit["BTC"] = live_limit
    /\ last_timestamp["BTC"] > earliest_timestamp
    /\ now - last_timestamp["BTC"] >= live_window
    /\ stats.successful_requests >= 2

====
